---------------------------- MODULE Spec2Model ----------------------------
(***************************************************************************)
(* StatblockParser.parse of the Daggerheart statblock importer, as a state *)
(* machine that consumes the input one line per step.  Lines are strings;  *)
(* every regular expression of the parser is an operator that computes the *)
(* match (and its capture groups) the JavaScript engine computes.          *)
(***************************************************************************)
EXTENDS Integers, Sequences, FiniteSets, TLC

(***************************************************************************)
(* Characters and strings (String.prototype.* and the regex classes).      *)
(***************************************************************************)
LowerLetters == "abcdefghijklmnopqrstuvwxyz"
UpperLetters == "ABCDEFGHIJKLMNOPQRSTUVWXYZ"
Digits == "0123456789"

CharAt(s, i) == IF i >= 1 /\ i <= Len(s) THEN SubSeq(s, i, i) ELSE ""

CharsOf(s) == {SubSeq(s, i, i) : i \in 1..Len(s)}

\* \s of the regular expressions, and the characters trim() strips
WhiteSpace == {" ", "\t", "\r", "\n", "\f"}
IsSpace(c) == c \in WhiteSpace

\* \d
DigitChars == CharsOf(Digits)
IsDigit(c) == c \in DigitChars

IndexIn(c, alphabet) == CHOOSE i \in 1..Len(alphabet) : SubSeq(alphabet, i, i) = c

LowerChars == CharsOf(LowerLetters)
UpperChars == CharsOf(UpperLetters)

\* the case mappings of the ASCII letters
UpperOf ==
    "a" :> "A" @@ "b" :> "B" @@ "c" :> "C" @@ "d" :> "D" @@ "e" :> "E" @@ "f" :> "F"
    @@ "g" :> "G" @@ "h" :> "H" @@ "i" :> "I" @@ "j" :> "J" @@ "k" :> "K" @@ "l" :> "L"
    @@ "m" :> "M" @@ "n" :> "N" @@ "o" :> "O" @@ "p" :> "P" @@ "q" :> "Q" @@ "r" :> "R"
    @@ "s" :> "S" @@ "t" :> "T" @@ "u" :> "U" @@ "v" :> "V" @@ "w" :> "W" @@ "x" :> "X"
    @@ "y" :> "Y" @@ "z" :> "Z"

LowerOf ==
    "A" :> "a" @@ "B" :> "b" @@ "C" :> "c" @@ "D" :> "d" @@ "E" :> "e" @@ "F" :> "f"
    @@ "G" :> "g" @@ "H" :> "h" @@ "I" :> "i" @@ "J" :> "j" @@ "K" :> "k" @@ "L" :> "l"
    @@ "M" :> "m" @@ "N" :> "n" @@ "O" :> "o" @@ "P" :> "p" @@ "Q" :> "q" @@ "R" :> "r"
    @@ "S" :> "s" @@ "T" :> "t" @@ "U" :> "u" @@ "V" :> "v" @@ "W" :> "w" @@ "X" :> "x"
    @@ "Y" :> "y" @@ "Z" :> "z"

UpperChar(c) == IF c \in LowerChars THEN UpperOf[c] ELSE c

LowerChar(c) == IF c \in UpperChars THEN LowerOf[c] ELSE c

\* s.toUpperCase() and s.toLowerCase(), by halves (a long line stays shallow)
RECURSIVE ToUpperCase(_)
ToUpperCase(s) ==
    IF Len(s) <= 1 THEN UpperChar(s)
    ELSE ToUpperCase(SubSeq(s, 1, Len(s) \div 2))
            \o ToUpperCase(SubSeq(s, Len(s) \div 2 + 1, Len(s)))

RECURSIVE ToLowerCase(_)
ToLowerCase(s) ==
    IF Len(s) <= 1 THEN LowerChar(s)
    ELSE ToLowerCase(SubSeq(s, 1, Len(s) \div 2))
            \o ToLowerCase(SubSeq(s, Len(s) \div 2 + 1, Len(s)))

\* s.includes(sub)
Includes(s, sub) ==
    \E i \in 1..(Len(s) - Len(sub) + 1) : SubSeq(s, i, i + Len(sub) - 1) = sub

\* s.toUpperCase().includes(SUB), SUB in upper case, without building the
\* upper-cased copy of a long line
UpperIncludes(s, sub) ==
    \E i \in 1..(Len(s) - Len(sub) + 1) :
        \A k \in 1..Len(sub) : UpperChar(CharAt(s, i + k - 1)) = CharAt(sub, k)

\* s.toLowerCase().includes(sub), sub in lower case
LowerIncludes(s, sub) ==
    \E i \in 1..(Len(s) - Len(sub) + 1) :
        \A k \in 1..Len(sub) : LowerChar(CharAt(s, i + k - 1)) = CharAt(sub, k)

\* the literal lit, matched at position i of s under the /i flag
MatchCI(s, i, lit) ==
    /\ i >= 1
    /\ i + Len(lit) - 1 <= Len(s)
    /\ \A k \in 1..Len(lit) :
          UpperChar(CharAt(s, i + k - 1)) = UpperChar(CharAt(lit, k))

\* the position after a greedy \s* (resp. \d*) that starts at position i
RECURSIVE SkipSpaces(_, _)
SkipSpaces(s, i) ==
    IF i <= Len(s) /\ IsSpace(CharAt(s, i)) THEN SkipSpaces(s, i + 1) ELSE i

RECURSIVE SkipDigits(_, _)
SkipDigits(s, i) ==
    IF i <= Len(s) /\ IsDigit(CharAt(s, i)) THEN SkipDigits(s, i + 1) ELSE i

\* the index of the last character that is not white space, 0 if none
RECURSIVE LastNonSpace(_, _)
LastNonSpace(s, i) ==
    IF i >= 1 /\ IsSpace(CharAt(s, i)) THEN LastNonSpace(s, i - 1) ELSE i

\* s.trim()
Trim(s) == SubSeq(s, SkipSpaces(s, 1), LastNonSpace(s, Len(s)))

DigitValue(c) == IndexIn(c, Digits) - 1

\* parseInt of a string [+-]?\d+
RECURSIVE ParseDigits(_, _)
ParseDigits(s, acc) ==
    IF s = "" THEN acc
    ELSE ParseDigits(Tail(s), 10 * acc + DigitValue(Head(s)))

ParseInt(s) ==
    IF CharAt(s, 1) = "-" THEN 0 - ParseDigits(Tail(s), 0)
    ELSE IF CharAt(s, 1) = "+" THEN ParseDigits(Tail(s), 0)
    ELSE ParseDigits(s, 0)

Min(S) == CHOOSE x \in S : \A y \in S : x <= y

\* text.split("\n"): the pieces between the newlines, in order
NewlinesOf(s) == {i \in 1..Len(s) : SubSeq(s, i, i) = "\n"}

Split(s) ==
    LET nl == NewlinesOf(s)
        \* the position of the k-th newline; 0 and Len(s) + 1 bracket the text
        nth == [k \in 0..(Cardinality(nl) + 1) |->
                   IF k = 0 THEN 0
                   ELSE IF k > Cardinality(nl) THEN Len(s) + 1
                   ELSE CHOOSE p \in nl : Cardinality({q \in nl : q < p}) = k - 1]
    IN  [k \in 1..(Cardinality(nl) + 1) |-> SubSeq(s, nth[k - 1] + 1, nth[k] - 1)]

\* NormalizeLines without the filter: the blank lines stay (C2 fails of it)
NormalizeLinesKeepingBlanks(s) ==
    LET pieces == Split(s)
    IN  [k \in 1..Len(pieces) |-> Trim(pieces[k])]

\* text.split("\n").map(line => line.trim()).filter(line => line.length > 0)
NormalizeLines(s) ==
    LET pieces == Split(s)
        trimmed == [k \in 1..Len(pieces) |-> Trim(pieces[k])]
    IN  SelectSeq(trimmed, LAMBDA l : Len(l) > 0)

(***************************************************************************)
(* The regular expressions of the parser.  A lazy group (.+?) takes the    *)
(* shortest prefix after which the rest of the pattern matches; a greedy   *)
(* \s* or \d+ takes the whole run, since what follows it never matches a   *)
(* character of the run.  No match is [ok |-> FALSE].                      *)
(***************************************************************************)
NoMatch == [ok |-> FALSE]

FeatureTypes == <<"Action", "Passive", "Reaction">>

\* (Action|Passive|Reaction)\s*$ under /i at position q: the word matched
\* there in lower case, "" when the rest of the line is not such a word
TypeWordToEnd(line, q) ==
    LET hits == {n \in 1..Len(FeatureTypes) :
                    /\ MatchCI(line, q, FeatureTypes[n])
                    /\ SkipSpaces(line, q + Len(FeatureTypes[n])) = Len(line) + 1}
    IN  IF hits = {} THEN ""
        ELSE ToLowerCase(SubSeq(line, q, q + Len(FeatureTypes[Min(hits)]) - 1))

\* /^Experience:\s*$/i
IsExperienceSectionStart(line) ==
    /\ MatchCI(line, 1, "Experience:")
    /\ SkipSpaces(line, Len("Experience:") + 1) = Len(line) + 1

\* /^Motives\s*&\s*Tactics:/i : the position after the colon, 0 if no match
MotivesPrefixEnd(line) ==
    LET amp == SkipSpaces(line, Len("Motives") + 1)
        tac == SkipSpaces(line, amp + 1)
    IN  IF /\ MatchCI(line, 1, "Motives")
           /\ CharAt(line, amp) = "&"
           /\ MatchCI(line, tac, "Tactics:")
        THEN tac + Len("Tactics:")
        ELSE 0

\* /^Motives\s*&\s*Tactics:\s*$/i
IsMotivesHeaderOnly(line) ==
    LET e == MotivesPrefixEnd(line)
    IN  e # 0 /\ SkipSpaces(line, e) = Len(line) + 1

\* /^(.+?)\s+\+(\d+)$/ : the lengths of group 1 for which the rest matches
ExperienceSplits(line) ==
    {k \in 1..Len(line) :
        /\ IsSpace(CharAt(line, k + 1))
        /\ LET p == SkipSpaces(line, k + 1)
           IN  /\ CharAt(line, p) = "+"
               /\ p + 1 <= Len(line)
               /\ SkipDigits(line, p + 1) = Len(line) + 1}

\* line.match(/^(.+?)\s+\+(\d+)$/) with expMatch[1].trim(), parseInt(expMatch[2])
MatchExperienceLine(line) ==
    LET splits == ExperienceSplits(line)
    IN  IF splits = {} THEN NoMatch
        ELSE LET k == Min(splits)
             IN  [ok |-> TRUE,
              name |-> Trim(SubSeq(line, 1, k)),
              value |-> ParseInt(SubSeq(line, SkipSpaces(line, k + 1) + 1, Len(line)))]

\* _isExperienceLine: /^.+\s+\+\d+$/
IsExperienceLine(line) == ExperienceSplits(line) # {}

\* the tail (?:\s*-\s*Environment)?$ under /i, from position p on
EnvironmentTailAt(line, p) ==
    \/ p = Len(line) + 1
    \/ LET dash == SkipSpaces(line, p)
           env == SkipSpaces(line, dash + 1)
       IN  /\ CharAt(line, dash) = "-"
           /\ MatchCI(line, env, "Environment")
           /\ env + Len("Environment") = Len(line) + 1

\* /^T(\d+)\s+(.+?)(?:\s*-\s*Environment)?$/i
MatchTierType(line) ==
    LET d == SkipDigits(line, 2)
        s == SkipSpaces(line, d)
        \* \s+ is greedy but leaves one character to (.+?)
        g == IF s > Len(line) THEN Len(line) ELSE s
    IN  IF /\ MatchCI(line, 1, "T")
           /\ d > 2
           /\ IsSpace(CharAt(line, d))
           /\ g > d
        THEN LET k == Min({j \in g..Len(line) : EnvironmentTailAt(line, j + 1)})
             IN  [ok |-> TRUE,
                  tier |-> ParseInt(SubSeq(line, 2, d - 1)),
                  typeText |-> ToLowerCase(Trim(SubSeq(line, g, k)))]
        ELSE NoMatch

\* /^(.+?)\s+(T(\d+)\s+(.+))$/i : the lengths of group 1 for which the rest matches
LegacySplits(line) ==
    {k \in 1..Len(line) :
        /\ IsSpace(CharAt(line, k + 1))
        /\ LET t == SkipSpaces(line, k + 1)
               d == SkipDigits(line, t + 1)
           IN  /\ MatchCI(line, t, "T")
               /\ d > t + 1
               /\ IsSpace(CharAt(line, d))
               /\ d + 1 <= Len(line)}

\* the legacy pattern without toLowerCase() on the subtype (C3 fails of it)
MatchLegacyKeepingCase(line) ==
    LET splits == LegacySplits(line)
    IN
    IF splits = {} THEN NoMatch
    ELSE LET k == Min(splits)
             t == SkipSpaces(line, k + 1)
             d == SkipDigits(line, t + 1)
             n == ParseInt(SubSeq(line, t + 1, d - 1))
         IN  [ok |-> TRUE,
              name |-> Trim(SubSeq(line, 1, k)),
              tier |-> IF n = 0 THEN 1 ELSE n,
              subtype |-> Trim(SubSeq(line, d, Len(line)))]

\* the legacy pattern with nameTypeMatch[1].trim(), parseInt(nameTypeMatch[3]) || 1
\* and nameTypeMatch[4].trim().toLowerCase()
MatchLegacyNameType(line) ==
    LET splits == LegacySplits(line)
    IN
    IF splits = {} THEN NoMatch
    ELSE LET k == Min(splits)
             t == SkipSpaces(line, k + 1)
             d == SkipDigits(line, t + 1)
             n == ParseInt(SubSeq(line, t + 1, d - 1))
         IN  [ok |-> TRUE,
              name |-> Trim(SubSeq(line, 1, k)),
              tier |-> IF n = 0 THEN 1 ELSE n,
              subtype |-> ToLowerCase(Trim(SubSeq(line, d, Len(line))))]

\* /^(Difficulty|Attack|Experience|Motives|HP|STRESS|Features)/i
StatWords == {"Difficulty", "Attack", "Experience", "Motives", "HP", "STRESS", "Features"}

StartsWithStatWord(line) == \E w \in StatWords : MatchCI(line, 1, w)

\* /^T\d+/i
StartsWithTier(line) == MatchCI(line, 1, "T") /\ IsDigit(CharAt(line, 2))

\* /^(.+?)<sep>(Action|Passive|Reaction)\s*$/i where <sep> is \s*-\s* (sep "-"),
\* \s*:\s* (sep ":") or \s+ (sep ""): the lengths of group 1 for which the rest
\* matches
HeaderSplits(line, sep) ==
    {k \in 1..Len(line) :
        LET p == SkipSpaces(line, k + 1)
        IN  IF sep = ""
            THEN /\ IsSpace(CharAt(line, k + 1))
                 /\ TypeWordToEnd(line, p) # ""
            ELSE /\ CharAt(line, p) = sep
                 /\ TypeWordToEnd(line, SkipSpaces(line, p + 1)) # ""}

HeaderType(line, sep, k) ==
    IF sep = ""
    THEN TypeWordToEnd(line, SkipSpaces(line, k + 1))
    ELSE TypeWordToEnd(line, SkipSpaces(line, SkipSpaces(line, k + 1) + 1))

\* name.match(/^(.+?)\s*\((\d+)\)$/) : the lengths of group 1 for which the rest matches
ValueSplits(name) ==
    {k \in 1..Len(name) :
        LET o == SkipSpaces(name, k + 1)
        IN  /\ CharAt(name, o) = "("
            /\ SkipDigits(name, o + 1) > o + 1
            /\ SkipDigits(name, o + 1) = Len(name)
            /\ CharAt(name, Len(name)) = ")"}

\* _parseFeatureHeader without the search for a value in parentheses (C18 fails
\* of it)
ParseFeatureHeaderWithoutValue(line) ==
    LET splits == HeaderSplits(line, "-")
    IN
    IF splits = {} THEN NoMatch
    ELSE [ok |-> TRUE, name |-> Trim(SubSeq(line, 1, Min(splits))),
          type |-> HeaderType(line, "-", Min(splits)), value |-> ""]

\* _parseFeatureHeader
ParseFeatureHeader(line) ==
    LET splits == HeaderSplits(line, "-")
    IN
    IF splits = {} THEN NoMatch
    ELSE LET k == Min(splits)
             name == Trim(SubSeq(line, 1, k))
             values == ValueSplits(name)
         IN  IF values # {}
             THEN LET v == Min(values)
                  IN  [ok |-> TRUE,
                       name |-> Trim(SubSeq(name, 1, v)),
                       type |-> HeaderType(line, "-", k),
                       value |-> SubSeq(name, SkipSpaces(name, v + 1) + 1, Len(name) - 1)]
             ELSE [ok |-> TRUE, name |-> name, type |-> HeaderType(line, "-", k),
                   value |-> ""]

\* _parseFeatureHeaderFlexible: the three patterns in the order tried
ParseFeatureHeaderFlexible(line) ==
    LET colon == HeaderSplits(line, ":")
        bare == HeaderSplits(line, "")
    IN
    IF colon # {}
    THEN LET k == Min(colon)
         IN  [ok |-> TRUE, name |-> Trim(SubSeq(line, 1, k)),
              type |-> HeaderType(line, ":", k), value |-> ""]
    ELSE IF bare # {} /\ Len(Trim(SubSeq(line, 1, Min(bare)))) > 3
    THEN LET k == Min(bare)
         IN  [ok |-> TRUE, name |-> Trim(SubSeq(line, 1, k)),
              type |-> HeaderType(line, "", k), value |-> ""]
    ELSE \* /^(.+?)\s*\((\d+)\)\s*:\s*(Action|Passive|Reaction)\s*$/i
         LET ks == {k \in 1..Len(line) :
                      LET o == SkipSpaces(line, k + 1)
                          d == SkipDigits(line, o + 1)
                          c == SkipSpaces(line, d + 1)
                      IN  /\ CharAt(line, o) = "("
                          /\ d > o + 1
                          /\ CharAt(line, d) = ")"
                          /\ CharAt(line, c) = ":"
                          /\ TypeWordToEnd(line, SkipSpaces(line, c + 1)) # ""}
         IN  IF ks = {} THEN NoMatch
             ELSE LET k == Min(ks)
                      o == SkipSpaces(line, k + 1)
                      d == SkipDigits(line, o + 1)
                  IN  [ok |-> TRUE, name |-> Trim(SubSeq(line, 1, k)),
                       type |-> TypeWordToEnd(line,
                                   SkipSpaces(line, SkipSpaces(line, d + 1) + 1)),
                       value |-> SubSeq(line, o + 1, d - 1)]

\* _isNewSection
IsNewSection(line) ==
    \/ UpperIncludes(line, "HP") /\ UpperIncludes(line, "STRESS")
    \/ \E w \in {"minor", "major", "severe"} : MatchCI(line, 1, w)
    \/ /\ SkipDigits(line, 1) > 1                            \* /^\d+\s+HP/i
       /\ IsSpace(CharAt(line, SkipDigits(line, 1)))
       /\ MatchCI(line, SkipSpaces(line, SkipDigits(line, 1)), "HP")
    \/ UpperIncludes(line, "FEATURES") /\ ~Includes(line, ":")
    \/ \E w \in {"Difficulty:", "Attack:", "Experience:"} : MatchCI(line, 1, w)
    \/ MotivesPrefixEnd(line) # 0

(***************************************************************************)
(* The record under construction and the extractors that write to it.     *)
(***************************************************************************)
Null == <<>>

NewResult ==
    [name |-> "", type |-> "adversary", tier |-> 1, subtype |-> "",
     description |-> "", difficulty |-> 10, attack |-> 0, attackInfo |-> Null,
     experience |-> "", experiences |-> <<>>, motivesAndTactics |-> "",
     features |-> <<>>, hitPoints |-> [minor |-> 0, major |-> 0, severe |-> 0],
     stress |-> 0, resistances |-> <<>>, immunities |-> <<>>,
     vulnerabilities |-> <<>>]

\* an extractor's outcome: whether it accepted the line, and the record after it
Outcome(ok, res) == [ok |-> ok, result |-> res]

\* _parseNameAndType with a legacy branch that sets type as the modern branch
\* does (C12 fails of it)
NameAndTypeOutcomeLegacyTyped(line, result, tierTypeMatch, nameTypeMatch) ==
    IF result.name = "" /\ ~Includes(line, "T") /\ ~Includes(line, ":")
    THEN Outcome(TRUE, [result EXCEPT !.name = Trim(line)])
    ELSE IF tierTypeMatch.ok
    THEN Outcome(TRUE,
            [result EXCEPT !.tier = tierTypeMatch.tier,
                           !.type = IF LowerIncludes(line, "environment")
                                    THEN "environment" ELSE "adversary",
                           !.subtype = tierTypeMatch.typeText])
    ELSE IF nameTypeMatch.ok
    THEN Outcome(TRUE,
            [result EXCEPT !.name = nameTypeMatch.name,
                           !.tier = nameTypeMatch.tier,
                           !.type = IF LowerIncludes(line, "environment")
                                    THEN "environment" ELSE "adversary",
                           !.subtype = nameTypeMatch.subtype])
    ELSE Outcome(FALSE, result)

\* _parseNameAndType, given the matches of its two patterns
NameAndTypeOutcome(line, result, tierTypeMatch, nameTypeMatch) ==
    IF result.name = "" /\ ~Includes(line, "T") /\ ~Includes(line, ":")
    THEN Outcome(TRUE, [result EXCEPT !.name = Trim(line)])
    ELSE IF tierTypeMatch.ok
    THEN Outcome(TRUE,
            [result EXCEPT !.tier = tierTypeMatch.tier,
                           !.type = IF LowerIncludes(line, "environment")
                                    THEN "environment" ELSE "adversary",
                           !.subtype = tierTypeMatch.typeText])
    ELSE IF nameTypeMatch.ok
    THEN Outcome(TRUE,
            [result EXCEPT !.name = nameTypeMatch.name,
                           !.tier = nameTypeMatch.tier,
                           !.subtype = nameTypeMatch.subtype])
    ELSE Outcome(FALSE, result)

ParseNameAndType(line, result) ==
    NameAndTypeOutcome(line, result, MatchTierType(line), MatchLegacyNameType(line))

\* _parseDescription without the test !result.description (C21 fails of it)
ParseDescriptionRepeating(line, result) ==
    IF /\ result.name # ""
       /\ ~Includes(line, ":")
       /\ ~StartsWithStatWord(line)
       /\ ~ParseFeatureHeader(line).ok
       /\ ~StartsWithTier(line)
       /\ ~IsExperienceLine(line)
    THEN Outcome(TRUE, [result EXCEPT !.description = Trim(line)])
    ELSE Outcome(FALSE, result)

\* _parseDescription
ParseDescription(line, result) ==
    IF /\ result.name # ""
       /\ result.description = ""
       /\ ~Includes(line, ":")
       /\ ~StartsWithStatWord(line)
       /\ ~ParseFeatureHeader(line).ok
       /\ ~StartsWithTier(line)
       /\ ~IsExperienceLine(line)
    THEN Outcome(TRUE, [result EXCEPT !.description = Trim(line)])
    ELSE Outcome(FALSE, result)

\* /^Difficulty:\s*(\d+)/i
MatchDifficulty(line) ==
    LET p == SkipSpaces(line, Len("Difficulty:") + 1)
        d == SkipDigits(line, p)
    IN  IF MatchCI(line, 1, "Difficulty:") /\ d > p
        THEN [ok |-> TRUE, value |-> ParseInt(SubSeq(line, p, d - 1))]
        ELSE NoMatch

\* the attack pattern without the optional sign, /^Attack:\s*(\d+)/i (C4 fails
\* of it)
MatchAttackUnsigned(line) ==
    LET p == SkipSpaces(line, Len("Attack:") + 1)
        d == SkipDigits(line, p)
    IN  IF MatchCI(line, 1, "Attack:") /\ d > p
        THEN [ok |-> TRUE, value |-> ParseInt(SubSeq(line, p, d - 1))]
        ELSE NoMatch

\* /^Attack:\s*([+-]?\d+)/i
MatchAttack(line) ==
    LET p == SkipSpaces(line, Len("Attack:") + 1)
        q == IF CharAt(line, p) \in {"+", "-"} THEN p + 1 ELSE p
        d == SkipDigits(line, q)
    IN  IF MatchCI(line, 1, "Attack:") /\ d > q
        THEN [ok |-> TRUE, value |-> ParseInt(SubSeq(line, p, d - 1))]
        ELSE NoMatch

\* damageInfo.match(/(\d+d\d+)(?:\+(\d+))?\s+(phy|mag|physical|magical)/i) tried
\* from position a: the positions [a, e) are \d+, e is "d", [e+1, g) is \d+
DamageAt(info, a) ==
    LET e == SkipDigits(info, a)
        g == SkipDigits(info, e + 1)
        plus == CharAt(info, g) = "+" /\ SkipDigits(info, g + 1) > g + 1
        h == IF plus THEN SkipDigits(info, g + 1) ELSE g
        w == SkipSpaces(info, h)
    IN  IF /\ e > a
           /\ MatchCI(info, e, "d")
           /\ g > e + 1
           /\ w > h
           /\ (MatchCI(info, w, "phy") \/ MatchCI(info, w, "mag"))
        THEN [ok |-> TRUE,
              dice |-> SubSeq(info, a, g - 1),
              bonus |-> IF plus THEN ParseInt(SubSeq(info, g + 1, h - 1)) ELSE 0,
              damageType |-> ToLowerCase(SubSeq(info, w, w + 2))]
        ELSE NoMatch

\* the leftmost match of the damage pattern
MatchDamage(info) ==
    LET starts == {a \in 1..Len(info) : DamageAt(info, a).ok}
    IN  IF starts = {} THEN NoMatch ELSE DamageAt(info, Min(starts))

\* /^([^:]+):\s*([^|]+)\|\s*(.+)/i : group 1 ends before the first colon, group 2
\* before the first "|" after it, and each group holds at least one character
MatchAttackLine(line) ==
    LET colons == {i \in 1..Len(line) : CharAt(line, i) = ":"}
        c == IF colons = {} THEN 0 ELSE Min(colons)
        pipes == {i \in (c + 1)..Len(line) : CharAt(line, i) = "|"}
        b == IF pipes = {} THEN 0 ELSE Min(pipes)
    IN  IF c >= 2 /\ b >= c + 2 /\ b + 1 <= Len(line)
        THEN [ok |-> TRUE,
              attackName |-> Trim(SubSeq(line, 1, c - 1)),
              range |-> Trim(SubSeq(line, c + 1, b - 1)),
              damageInfo |-> Trim(SubSeq(line, b + 1, Len(line)))]
        ELSE NoMatch

\* /^Experience:\s*(.+)/i with experienceMatch[1].trim()
MatchInlineExperience(line) ==
    IF MatchCI(line, 1, "Experience:") /\ Len(line) > Len("Experience:")
    THEN [ok |-> TRUE, value |-> Trim(SubSeq(line, Len("Experience:") + 1, Len(line)))]
    ELSE NoMatch

\* /^Motives\s*&\s*Tactics:\s*(.+)/i with motivesMatch[1].trim()
MatchInlineMotives(line) ==
    LET e == MotivesPrefixEnd(line)
    IN  IF e # 0 /\ e <= Len(line)
        THEN [ok |-> TRUE, content |-> Trim(SubSeq(line, e, Len(line)))]
        ELSE NoMatch

\* the attack line keeping the damage word as matched instead of the words
\* physical and magical (C27 fails of it)
AttackInfoOutcomeShortWord(result, attackLineMatch, damageMatch) ==
    IF damageMatch.ok
    THEN Outcome(TRUE,
            [result EXCEPT !.attackInfo =
                <<[name |-> attackLineMatch.attackName,
                   range |-> attackLineMatch.range,
                   dice |-> damageMatch.dice,
                   bonus |-> damageMatch.bonus,
                   damageType |-> damageMatch.damageType]>>])
    ELSE Outcome(FALSE, result)

\* the attack line and the damage pattern on its third group
AttackInfoOutcome(result, attackLineMatch, damageMatch) ==
    IF damageMatch.ok
    THEN Outcome(TRUE,
            [result EXCEPT !.attackInfo =
                <<[name |-> attackLineMatch.attackName,
                   range |-> attackLineMatch.range,
                   dice |-> damageMatch.dice,
                   bonus |-> damageMatch.bonus,
                   damageType |-> IF damageMatch.damageType = "phy"
                                  THEN "physical" ELSE "magical"]>>])
    ELSE Outcome(FALSE, result)

ParseAttackInfo(result, attackLineMatch) ==
    IF attackLineMatch.ok
    THEN AttackInfoOutcome(result, attackLineMatch, MatchDamage(attackLineMatch.damageInfo))
    ELSE Outcome(FALSE, result)

\* _parseBasicStats, given the matches of its patterns
BasicStatsOutcome(line, result, difficultyMatch, attackMatch, attackInfo, experienceMatch, motivesMatch) ==
    IF difficultyMatch.ok
    THEN Outcome(TRUE, [result EXCEPT !.difficulty = difficultyMatch.value])
    ELSE IF attackMatch.ok
    THEN Outcome(TRUE, [result EXCEPT !.attack = attackMatch.value])
    ELSE IF attackInfo.ok
    THEN attackInfo
    ELSE IF experienceMatch.ok
    THEN Outcome(TRUE, [result EXCEPT !.experience = experienceMatch.value])
    ELSE IF motivesMatch.ok
    THEN Outcome(TRUE,
            IF motivesMatch.content # ""
            THEN [result EXCEPT !.motivesAndTactics = motivesMatch.content]
            ELSE result)
    ELSE IF IsMotivesHeaderOnly(line)
    THEN Outcome(TRUE, result)
    ELSE Outcome(FALSE, result)

ParseBasicStats(line, result) ==
    BasicStatsOutcome(line, result, MatchDifficulty(line), MatchAttack(line),
                      ParseAttackInfo(result, MatchAttackLine(line)),
                      MatchInlineExperience(line), MatchInlineMotives(line))

(***************************************************************************)
(* The inputs.  A text is a JavaScript value: a string, or something else. *)
(***************************************************************************)
RECURSIVE JoinLines(_)
\* the position of the first digit at or after position i (a greedy [^\d]* that
\* starts at i, before a \d), Len(s) + 1 when there is none
RECURSIVE SkipNonDigits(_, _)
SkipNonDigits(s, i) ==
    IF i <= Len(s) /\ ~IsDigit(CharAt(s, i)) THEN SkipNonDigits(s, i + 1) ELSE i

\* <word>\s+HP[^\d]*(\d+) under /i tried at position p: the position of the
\* digits, 0 if no match there
HPDigitsAt(line, p, word) ==
    LET h == SkipSpaces(line, p + Len(word))
        d == SkipNonDigits(line, h + Len("HP"))
    IN  IF /\ MatchCI(line, p, word)
           /\ h > p + Len(word)
           /\ MatchCI(line, h, "HP")
           /\ d <= Len(line)
        THEN d ELSE 0

\* STRESS[^\d]*(\d+) under /i tried at position p
StressDigitsAt(line, p) ==
    LET d == SkipNonDigits(line, p + Len("STRESS"))
    IN  IF MatchCI(line, p, "STRESS") /\ d <= Len(line) THEN d ELSE 0

\* parseInt of the run of digits that starts at position d
DigitsValueAt(line, d) == ParseInt(SubSeq(line, d, SkipDigits(line, d) - 1))

\* line.match(/<word>\s+HP[^\d]*(\d+)/i): the leftmost match
MatchHP(line, word) ==
    LET ps == {p \in 1..Len(line) : HPDigitsAt(line, p, word) # 0}
    IN  IF ps = {} THEN NoMatch
        ELSE [ok |-> TRUE, value |-> DigitsValueAt(line, HPDigitsAt(line, Min(ps), word))]

\* line.match(/STRESS[^\d]*(\d+)/i)
MatchStress(line) ==
    LET ps == {p \in 1..Len(line) : StressDigitsAt(line, p) # 0}
    IN  IF ps = {} THEN NoMatch
        ELSE [ok |-> TRUE, value |-> DigitsValueAt(line, StressDigitsAt(line, Min(ps)))]

\* _parseHPStress, given the matches of its four patterns; parse never calls it
HPStressOutcome(result, minorHPMatch, majorHPMatch, severeHPMatch, stressMatch) ==
    [result EXCEPT
        !.hitPoints.minor = IF minorHPMatch.ok THEN minorHPMatch.value ELSE @,
        !.hitPoints.major = IF majorHPMatch.ok THEN majorHPMatch.value ELSE @,
        !.hitPoints.severe = IF severeHPMatch.ok THEN severeHPMatch.value ELSE @,
        !.stress = IF stressMatch.ok THEN stressMatch.value ELSE @]

ParseHPStress(line, result) ==
    HPStressOutcome(result, MatchHP(line, "MINOR"), MatchHP(line, "MAJOR"),
                    MatchHP(line, "SEVERE"), MatchStress(line))


JoinLines(seq) ==
    IF Len(seq) = 0 THEN ""
    ELSE IF Len(seq) = 1 THEN seq[1]
    ELSE seq[1] \o "\n" \o JoinLines(Tail(seq))

StringValue(s) == [kind |-> "string", str |-> s]

\* parse(undefined), parse(null), parse(42), parse({})
NonStrings == {[kind |-> k, str |-> ""] : k \in {"undefined", "null", "number", "object"}}

\* !text
Falsy(text) == text.kind \in {"undefined", "null"} \/ text = StringValue("")

\* TEST_CASES.*.input
AcidBurrowerLines ==
    <<"ACID BURROWER T1 Solo",
      "A home-sized insect with digging claws and acidic blood.",
      "Difficulty: 14",
      "Attack: +3",
      "Experience: Tremor Sense +2",
      "Motives & Tactics: Burrow, Drag away, Feed, Reposition",
      "",
      "FEATURES",
      "Relentless (2) - Passive",
      "The Burrower can be spotlighted up to three times per GM turn. Spend Fear as usual to spotlight them.",
      "Earth Eruption - Action",
      "Mark a Stress to have the Burrower burst out of the ground. Make an attack against all targets in front of the Burrower within Close range. Targets the Burrower succeeds against take 2d6 physical damage and must mark an Armor Slot without receiving its benefits. If they can't mark an Armor Slot, they must mark an additional HP and you gain a Fear.",
      "Acid Bath - Reaction",
      "When the Burrower takes Severe damage, all creatures within Close range are bathed in their acidic blood, taking 1d10 physical damage. This splash covers the ground within Very Close range with blood, and all creatures other than the Burrower who move through it take 1d6 physical damage.",
      "",
      "HP & STRESS",
      "MINOR HP [ ] [ ] [ ] [ ] [ ] [ ] [ ] [ ] 8 MAJOR HP [ ] [ ] [ ] [ ] [ ] [ ] [ ] [ ] [ ] [ ] [ ] [ ] [ ] [ ] [ ] 15 SEVERE HP [ ] [ ] [ ] [ ] [ ] [ ] [ ] [ ] [ ] [ ] [ ] [ ] [ ] [ ] [ ]",
      "STRESS [ ] [ ] [ ]">>

GiantRatLines ==
    <<"GIANT RAT T1 Minion",
      "A large, aggressive rodent.",
      "Difficulty: 10",
      "Attack: +1",
      "Experience: Keen Smell +1",
      "Motives & Tactics: Swarm, Bite, Flee",
      "",
      "HP & STRESS",
      "MINOR HP [ ] [ ] [ ] 3 MAJOR HP [ ] [ ] [ ] [ ] [ ] 5",
      "STRESS [ ] [ ]">>

EnvironmentLines ==
    <<"ABANDONED GROVE T1 Event - Environment",
      "A once-sacred grove now tainted by dark magic.",
      "Difficulty: 12",
      "The Difficulty of this environment equals that of the adversaries within it.",
      "Surprise: Vines",
      "Vines and brambles burst from the ground to entangle intruders.",
      "",
      "BARONIAL COURT T1 Social - Environment",
      "Opulent court politics and elaborate rituals abound in these halls.",
      "Difficulty: 13",
      "You Survive My Test: Finesse",
      "The court's social machinations require finesse to navigate. When a character attempts to navigate the court's social dynamics, they must make a Finesse roll with Fear. On a success, they gain valuable information or an ally. On a failure, they commit a social faux pas and gain an enemy.">>

MalformedLines ==
    <<"Difficulty: 15",
      "Attack: +2",
      "Some random text without proper structure">>

EmptyText == ""

AcidBurrowerText == StringValue(JoinLines(AcidBurrowerLines))
GiantRatText == StringValue(JoinLines(GiantRatLines))
EnvironmentText == StringValue(JoinLines(EnvironmentLines))
MalformedText == StringValue(JoinLines(MalformedLines))

Fixtures ==
    {AcidBurrowerText, GiantRatText, EnvironmentText, MalformedText,
     StringValue(EmptyText)}

\* the sequences of up to max lines, each drawn from vocab
LinesOver(vocab, max) == UNION {[1..n -> vocab] : n \in 0..max}

\* the texts that start with the lines of prefix and go on with up to max
\* lines, each drawn from vocab
TextsAfter(prefix, vocab, max) ==
    {StringValue(JoinLines(prefix \o ls)) : ls \in LinesOver(vocab, max)}

\* lines of every kind the parser tells apart, one of them padded
MaxLines == 3

MixedLines ==
    {"DIRE WOLF", "  GIANT RAT T12 Horde Leader\r", "T1 Solo", "A large rodent.",
     "Experience:", "Lore +2", "Motives & Tactics:", "FEATURES", "Bite - Action",
     "HP & STRESS"}

\* texts that hold no line after normalization
MaxBlankLines == 3

BlankLines == {"", " \t", "\r"}

\* a first line of the legacy form, and what may follow it in the header
MaxFollowLines == 2

LegacyNames == {"GIANT RAT", "Features Thief"}
LegacyDigits == {"0", "12"}
LegacySubtypes == {"Minion", "Horde Leader"}

LegacyLine(n, d, st) == n \o " T" \o d \o " " \o st

LegacyFirstLines ==
    {LegacyLine(n, d, st) : n \in LegacyNames, d \in LegacyDigits, st \in LegacySubtypes}

FollowLines ==
    {"T3 Solo", "A large rodent.", "Motives & Tactics:", "Swarm, Bite, Flee",
     "OLD RAT T4 Leader", "Difficulty: 12"}

\* what may stand below the FEATURES line
MaxFeatureLines == 3

FeaturesPrefix == <<"DIRE WOLF", "FEATURES">>

FeatureLines ==
    {"Bite - Action", "Pack Tactics (2) - Passive", "Sharp teeth.",
     "Mark a Stress or lose 1 HP.", "Mark 1 HP & a Stress.", "Experience:",
     "Claws: Reaction"}

\* a name with a capital T, tier/type lines of both forms with and without the
\* word environment, and a line that meets two of the section-transition tests
MaxVariantLines == 3

VariantLines ==
    {"DIRE WOLF", "GIANT RAT", "T1 Traversal - Environment", "t2 Solo",
     "GROVE T1 Social - ENVIRONMENT", "Its features mark HP & Stress."}

\* a statblock with an experience section, features of several header forms and
\* lines that nothing takes
ExperienceAndFeaturesLines ==
    <<"DIRE WOLF",
      "T2 Leader",
      "Bite - Action",
      "Experience:",
      "Pack Hunter +2",
      "Keen  Nose   +13",
      "FEATURES",
      "Orphan text.",
      "Claws: REACTION",
      "Sharp claws.",
      "Pack Tactics (2) - passive",
      "Howl Action",
      "Deals 1 HP and 1 Stress.">>

ExperienceAndFeaturesText == StringValue(JoinLines(ExperienceAndFeaturesLines))

\* what may stand below a bare "Experience:" line: entries, an entry that holds
\* the word features, lines on motives, a stat, a line with FEATURES and a colon,
\* free text and tier lines of both forms
MaxExperienceLines == 2

ExperiencePrefix == <<"DIRE WOLF", "Experience:">>

ExperienceBlockLines ==
    {"Lore +2", "Keen  Nose   +13", "Features Lore +1", "Motives & Tactics:",
     "Motives & Tactics: Hunt", "Swarm, Bite", "Difficulty: 12",
     "List of features: none", "T3 Solo", "OLD RAT T4 Leader"}

\* feature headers, strict and flexible, that start with a word _isNewSection
\* looks for, and a line of text
MaxSentinelLines == 2

SentinelLines ==
    {"Major Blow: Reaction", "Minor Wound - Action", "Attack: Action",
     "Severe Strike Passive", "Sharp teeth."}

\* attack lines "<Name>: <range> | <dice>[+<bonus>] <damage word>", each read in
\* the header section after the four stats have been set
AttackNames == {"Claws", "Bite"}
AttackRanges == {"Very Close", "Melee"}
AttackDice == {"1d12", "2D6"}
AttackBonuses == {"", "+2", "+10"}
DamageWords == {"phy", "mag", "physical", "MAGICAL"}

AttackLineOf(n, r, d, b, w) == n \o ": " \o r \o " | " \o d \o b \o " " \o w

AttackFormLines ==
    {AttackLineOf(n, r, d, b, w) :
        n \in AttackNames, r \in AttackRanges, d \in AttackDice,
        b \in AttackBonuses, w \in DamageWords}

StatsPrefix ==
    <<"DIRE WOLF", "Difficulty: 14", "Attack: +3", "Experience: Tremor Sense +2",
      "Motives & Tactics: Burrow">>

\* lines with "|": an attack line, one whose damage part does not match, and
\* inline experience and motives lines
MaxPipeLines == 2

PipeLines ==
    {"Bite: Melee | 2d6+1 mag", "Claws: Melee | 1d12-2 phy",
     "Experience: Lore | Knowledge", "Motives & Tactics: Hunt | Flee"}

\* a statblock that leaves the features section twice through "Experience:"
\* with a feature in progress, and returns to it both ways
ReturnToFeaturesLines ==
    <<"DIRE WOLF",
      "FEATURES",
      "Bite - Action",
      "Sharp teeth.",
      "Experience:",
      "Lore +2",
      "List of features: two",
      "Claws - Reaction",
      "Sharp claws.",
      "Experience:",
      "FEATURES",
      "Howl: Passive">>

Inputs ==
    Fixtures
    \cup NonStrings
    \cup TextsAfter(<<>>, MixedLines, MaxLines)
    \cup TextsAfter(<<>>, BlankLines, MaxBlankLines)
    \cup UNION {TextsAfter(<<first>>, FollowLines, MaxFollowLines) :
                  first \in LegacyFirstLines}
    \cup TextsAfter(FeaturesPrefix, FeatureLines, MaxFeatureLines)
    \cup TextsAfter(<<>>, VariantLines, MaxVariantLines)
    \cup {ExperienceAndFeaturesText}
    \cup TextsAfter(ExperiencePrefix, ExperienceBlockLines, MaxExperienceLines)
    \cup TextsAfter(FeaturesPrefix, SentinelLines, MaxSentinelLines)
    \cup {StringValue(JoinLines(Append(StatsPrefix, l))) : l \in AttackFormLines}
    \cup TextsAfter(<<"DIRE WOLF">>, PipeLines, MaxPipeLines)
    \cup {StringValue(JoinLines(ReturnToFeaturesLines))}

(***************************************************************************)
(* parse(text): one step per line of the loop.                             *)
(***************************************************************************)
VARIABLES
    text,                          \* the argument of parse
    pc,                            \* "start", "loop", "done" (returned), "failed" (threw)
    error,                         \* the key of the message thrown, "" if none
    lines,                         \* the trimmed non-blank lines
    i,                             \* the loop index, from 1
    result,
    currentSection,
    currentFeature,                \* Null or <<feature>>
    expectingMotivesContinuation,
    sectionLog,                    \* history: currentSection after each line processed
    parser,                        \* the parser instance parse is called on
    calls,                         \* history: the calls of parse that have ended
    extracted,                     \* Null or <<what a feature header extractor returned>>
    dialog                         \* the import dialog: its button, notifications and handler

vars == <<text, pc, error, lines, i, result, currentSection, currentFeature,
          expectingMotivesContinuation, sectionLog, parser, calls, extracted,
          dialog>>

Sections == {"header", "experience", "features", "hp_stress"}

\* new StatblockParser(): the instance holds the debug setting and nothing else
NewParser(id, debugMode) == [id |-> id, debugMode |-> debugMode]

\* no import dialog is open: parse is called directly
NoDialog == Null

Init ==
    /\ text \in Inputs
    /\ pc = "start"
    /\ error = ""
    /\ lines = <<>>
    /\ i = 1
    /\ result = NewResult
    /\ currentSection = "header"
    /\ currentFeature = Null
    /\ expectingMotivesContinuation = FALSE
    /\ sectionLog = <<>>
    /\ parser = NewParser(1, FALSE)
    /\ calls = <<>>
    /\ dialog = NoDialog
    /\ extracted = Null

\* the guards at the top of parse, and the split into lines
Begin ==
    /\ pc = "start"
    /\ IF Falsy(text) \/ text.kind # "string"
       THEN /\ pc' = "failed"
            /\ error' = "notifications.empty"
            /\ lines' = lines
       ELSE /\ lines' = NormalizeLines(text.str)
            /\ IF Len(lines') = 0
               THEN pc' = "failed" /\ error' = "notifications.empty"
               ELSE pc' = "loop" /\ error' = error
    /\ UNCHANGED <<text, i, result, currentSection, currentFeature,
                   expectingMotivesContinuation, sectionLog, parser, calls,
                   extracted, dialog>>

InLoop == pc = "loop" /\ i <= Len(lines)

line == lines[i]

\* the three section-transition tests, in the order the loop makes them
IsFeaturesTrigger(l) == UpperIncludes(l, "FEATURES") /\ ~Includes(l, ":")

IsHpStressTrigger(l) ==
    UpperIncludes(l, "HP") /\ UpperIncludes(l, "STRESS") /\ Includes(l, "&")

IsTrigger(l) ==
    IsFeaturesTrigger(l) \/ IsHpStressTrigger(l) \/ IsExperienceSectionStart(l)

\* result.features.push(currentFeature) when there is one
Flushed(res, feature) ==
    IF feature # Null
    THEN [res EXCEPT !.features = Append(@, feature[1])]
    ELSE res

\* the end of one iteration: the next line, and the history
Advance ==
    /\ i' = i + 1
    /\ sectionLog' = Append(sectionLog, currentSection')
    /\ UNCHANGED <<text, pc, error, lines, parser, calls, extracted, dialog>>

FeaturesTrigger ==
    /\ InLoop
    /\ IsFeaturesTrigger(line)
    /\ result' = Flushed(result, currentFeature)
    /\ currentFeature' = Null
    /\ currentSection' = "features"
    /\ UNCHANGED expectingMotivesContinuation
    /\ Advance

\* the HP & STRESS transition dropping the feature in progress instead of
\* recording it (C19 fails of it)
HpStressTriggerWithoutFlush ==
    /\ InLoop
    /\ ~IsFeaturesTrigger(line)
    /\ IsHpStressTrigger(line)
    /\ currentFeature' = Null
    /\ currentSection' = "hp_stress"
    /\ UNCHANGED <<result, expectingMotivesContinuation>>
    /\ Advance


HpStressTrigger ==
    /\ InLoop
    /\ ~IsFeaturesTrigger(line)
    /\ IsHpStressTrigger(line)
    /\ result' = Flushed(result, currentFeature)
    /\ currentFeature' = Null
    /\ currentSection' = "hp_stress"
    /\ UNCHANGED expectingMotivesContinuation
    /\ Advance

\* the "Experience:" transition with the wrong section name (C10 fails of it)
ExperienceTriggerToHeader ==
    /\ InLoop
    /\ ~IsFeaturesTrigger(line)
    /\ ~IsHpStressTrigger(line)
    /\ IsExperienceSectionStart(line)
    /\ currentSection' = "header"
    /\ UNCHANGED <<result, currentFeature, expectingMotivesContinuation>>
    /\ Advance

\* the "Experience:" transition forgetting the feature in progress (C29 fails of
\* it)
ExperienceTriggerDroppingFeature ==
    /\ InLoop
    /\ ~IsFeaturesTrigger(line)
    /\ ~IsHpStressTrigger(line)
    /\ IsExperienceSectionStart(line)
    /\ currentSection' = "experience"
    /\ currentFeature' = Null
    /\ UNCHANGED <<result, expectingMotivesContinuation>>
    /\ Advance


ExperienceTrigger ==
    /\ InLoop
    /\ ~IsFeaturesTrigger(line)
    /\ ~IsHpStressTrigger(line)
    /\ IsExperienceSectionStart(line)
    /\ currentSection' = "experience"
    /\ UNCHANGED <<result, currentFeature, expectingMotivesContinuation>>
    /\ Advance

\* the header branch recording a strict feature header that no extractor took
\* as a feature, without a features section (C13 fails of it)
HeaderChoiceWithFeatures(l, res, expecting, nameAndType, description, basicStats) ==
    IF nameAndType.ok
    THEN [result |-> nameAndType.result, expecting |-> expecting]
    ELSE IF description.ok
    THEN [result |-> description.result, expecting |-> expecting]
    ELSE IF basicStats.ok
    THEN [result |-> basicStats.result,
          expecting |-> IF IsMotivesHeaderOnly(l) THEN TRUE ELSE expecting]
    ELSE IF expecting /\ ~UpperIncludes(l, "FEATURES")
    THEN [result |-> [res EXCEPT !.motivesAndTactics = Trim(l)], expecting |-> FALSE]
    ELSE IF ParseFeatureHeader(l).ok
    THEN [result |-> [res EXCEPT !.features =
                        Append(@, [name |-> ParseFeatureHeader(l).name,
                                   type |-> ParseFeatureHeader(l).type,
                                   value |-> ParseFeatureHeader(l).value,
                                   description |-> ""])],
          expecting |-> expecting]
    ELSE [result |-> res, expecting |-> expecting]

\* the header branch, given the outcomes of the extractors in the order tried:
\* the record and the continuation flag after the line
HeaderChoice(l, res, expecting, nameAndType, description, basicStats) ==
    IF nameAndType.ok
    THEN [result |-> nameAndType.result, expecting |-> expecting]
    ELSE IF description.ok
    THEN [result |-> description.result, expecting |-> expecting]
    ELSE IF basicStats.ok
    THEN [result |-> basicStats.result,
          expecting |-> IF IsMotivesHeaderOnly(l) THEN TRUE ELSE expecting]
    ELSE IF expecting /\ ~UpperIncludes(l, "FEATURES")
    THEN [result |-> [res EXCEPT !.motivesAndTactics = Trim(l)], expecting |-> FALSE]
    ELSE [result |-> res, expecting |-> expecting]

HeaderStep(l, res, expecting) ==
    HeaderChoice(l, res, expecting, ParseNameAndType(l, res),
                 ParseDescription(l, res), ParseBasicStats(l, res))

HeaderLine ==
    /\ InLoop
    /\ currentSection = "header"
    /\ ~IsTrigger(line)
    /\ \E step \in {HeaderStep(line, result, expectingMotivesContinuation)} :
          /\ result' = step.result
          /\ expectingMotivesContinuation' = step.expecting
    /\ UNCHANGED <<currentSection, currentFeature>>
    /\ Advance

\* the flag after the line was handed over to _parseBasicStats
AfterStats(l, expecting, basicStats) ==
    IF basicStats.ok /\ IsMotivesHeaderOnly(l) THEN TRUE ELSE expecting

\* the experience branch handing a line that ends the block to the whole header
\* branch instead of _parseBasicStats alone (C23 fails of it)
ExperienceChoiceRetryingHeader(l, res, expecting, expMatch, basicStats) ==
    IF expMatch.ok
    THEN [result |-> [res EXCEPT !.experiences =
                        Append(@, [name |-> expMatch.name, value |-> expMatch.value])],
          section |-> "experience", expecting |-> expecting]
    ELSE IF MotivesPrefixEnd(l) # 0
    THEN [result |-> basicStats.result, section |-> "header",
          expecting |-> AfterStats(l, expecting, basicStats)]
    ELSE IF UpperIncludes(l, "FEATURES")
    THEN [result |-> res, section |-> "features", expecting |-> expecting]
    ELSE IF ~IsExperienceLine(l)
    THEN [result |-> HeaderStep(l, res, expecting).result, section |-> "header",
          expecting |-> HeaderStep(l, res, expecting).expecting]
    ELSE [result |-> res, section |-> "experience", expecting |-> expecting]

\* the experience branch recording an entry at the front of result.experiences
\* (C22 fails of it)
ExperienceChoicePrepending(l, res, expecting, expMatch, basicStats) ==
    IF expMatch.ok
    THEN [result |-> [res EXCEPT !.experiences =
                        <<[name |-> expMatch.name, value |-> expMatch.value]>> \o @],
          section |-> "experience", expecting |-> expecting]
    ELSE IF MotivesPrefixEnd(l) # 0
    THEN [result |-> basicStats.result, section |-> "header",
          expecting |-> AfterStats(l, expecting, basicStats)]
    ELSE IF UpperIncludes(l, "FEATURES")
    THEN [result |-> res, section |-> "features", expecting |-> expecting]
    ELSE IF ~IsExperienceLine(l)
    THEN [result |-> basicStats.result, section |-> "header",
          expecting |-> AfterStats(l, expecting, basicStats)]
    ELSE [result |-> res, section |-> "experience", expecting |-> expecting]

\* the experience branch, given the match of the experience pattern and the
\* outcome of _parseBasicStats: the record, the section and the flag after the line
ExperienceChoice(l, res, expecting, expMatch, basicStats) ==
    IF expMatch.ok
    THEN [result |-> [res EXCEPT !.experiences =
                        Append(@, [name |-> expMatch.name, value |-> expMatch.value])],
          section |-> "experience", expecting |-> expecting]
    ELSE IF MotivesPrefixEnd(l) # 0
    THEN [result |-> basicStats.result, section |-> "header",
          expecting |-> AfterStats(l, expecting, basicStats)]
    ELSE IF UpperIncludes(l, "FEATURES")
    THEN [result |-> res, section |-> "features", expecting |-> expecting]
    ELSE IF ~IsExperienceLine(l)
    THEN [result |-> basicStats.result, section |-> "header",
          expecting |-> AfterStats(l, expecting, basicStats)]
    ELSE [result |-> res, section |-> "experience", expecting |-> expecting]

ExperienceStep(l, res, expecting) ==
    ExperienceChoice(l, res, expecting, MatchExperienceLine(l), ParseBasicStats(l, res))

ExperienceLine ==
    /\ InLoop
    /\ currentSection = "experience"
    /\ ~IsTrigger(line)
    /\ \E step \in {ExperienceStep(line, result, expectingMotivesContinuation)} :
          /\ result' = step.result
          /\ currentSection' = step.section
          /\ expectingMotivesContinuation' = step.expecting
    /\ UNCHANGED currentFeature
    /\ Advance

\* the feature started by a header match, its type in upper case (C15 fails of it)
NewFeatureTypeUpperCase(m) ==
    <<[name |-> IF m.value # "" THEN m.name \o " (" \o m.value \o ")" ELSE m.name,
       type |-> ToUpperCase(m.type),
       value |-> m.value,
       description |-> ""]>>

\* the feature started by a header match
NewFeature(m) ==
    <<[name |-> IF m.value # "" THEN m.name \o " (" \o m.value \o ")" ELSE m.name,
       type |-> ToLowerCase(m.type),
       value |-> m.value,
       description |-> ""]>>

\* currentFeature.description += line.trim(), after a space when not the first
WithDescription(feature, l) ==
    <<[feature[1] EXCEPT !.description =
          IF @ # "" THEN @ \o " " \o Trim(l) ELSE Trim(l)]>>

\* the features branch without the push of the previous feature at a new header
\* (C6 fails of it)
FeaturesChoiceNoFlush(l, res, feature, featureMatch, flexibleMatch) ==
    IF featureMatch.ok
    THEN [result |-> res, feature |-> NewFeature(featureMatch)]
    ELSE IF feature # Null /\ ~IsNewSection(l)
    THEN [result |-> res, feature |-> WithDescription(feature, l)]
    ELSE IF feature = Null /\ Trim(l) # "" /\ ~IsNewSection(l) /\ flexibleMatch.ok
    THEN [result |-> res, feature |-> NewFeature(flexibleMatch)]
    ELSE [result |-> res, feature |-> feature]

\* the features branch appending to the description also the lines that
\* _isNewSection refuses (C17 fails of it)
FeaturesChoiceKeepingAll(l, res, feature, featureMatch, flexibleMatch) ==
    IF featureMatch.ok
    THEN [result |-> Flushed(res, feature), feature |-> NewFeature(featureMatch)]
    ELSE IF feature # Null
    THEN [result |-> res, feature |-> WithDescription(feature, l)]
    ELSE IF feature = Null /\ Trim(l) # "" /\ ~IsNewSection(l) /\ flexibleMatch.ok
    THEN [result |-> res, feature |-> NewFeature(flexibleMatch)]
    ELSE [result |-> res, feature |-> feature]

\* the features branch consulting the flexible matcher also while a feature is
\* in progress (C24 fails of it)
FeaturesChoiceFlexibleAlways(l, res, feature, featureMatch, flexibleMatch) ==
    IF featureMatch.ok
    THEN [result |-> Flushed(res, feature), feature |-> NewFeature(featureMatch)]
    ELSE IF Trim(l) # "" /\ ~IsNewSection(l) /\ flexibleMatch.ok
    THEN [result |-> Flushed(res, feature), feature |-> NewFeature(flexibleMatch)]
    ELSE IF feature # Null /\ ~IsNewSection(l)
    THEN [result |-> res, feature |-> WithDescription(feature, l)]
    ELSE [result |-> res, feature |-> feature]

\* the features branch, given the matches of the two header extractors: the
\* record and the in-progress feature after the line
FeaturesChoice(l, res, feature, featureMatch, flexibleMatch) ==
    IF featureMatch.ok
    THEN [result |-> Flushed(res, feature), feature |-> NewFeature(featureMatch)]
    ELSE IF feature # Null /\ ~IsNewSection(l)
    THEN [result |-> res, feature |-> WithDescription(feature, l)]
    ELSE IF feature = Null /\ Trim(l) # "" /\ ~IsNewSection(l) /\ flexibleMatch.ok
    THEN [result |-> res, feature |-> NewFeature(flexibleMatch)]
    ELSE [result |-> res, feature |-> feature]

FeaturesStep(l, res, feature) ==
    FeaturesChoice(l, res, feature, ParseFeatureHeader(l), ParseFeatureHeaderFlexible(l))

FeaturesLine ==
    /\ InLoop
    /\ currentSection = "features"
    /\ ~IsTrigger(line)
    /\ \E step \in {FeaturesStep(line, result, currentFeature)} :
          /\ result' = step.result
          /\ currentFeature' = step.feature
    /\ UNCHANGED <<currentSection, expectingMotivesContinuation>>
    /\ Advance

\* the hp_stress branch handing the line to _parseHPStress (C14 fails of it)
HpStressLineExtracting ==
    /\ InLoop
    /\ currentSection = "hp_stress"
    /\ ~IsTrigger(line)
    /\ result' = ParseHPStress(line, result)
    /\ UNCHANGED <<currentSection, currentFeature, expectingMotivesContinuation>>
    /\ Advance

\* the hp_stress branch reading the line as the header branch does (C30 fails of
\* it)
HpStressLineAsHeader ==
    /\ InLoop
    /\ currentSection = "hp_stress"
    /\ ~IsTrigger(line)
    /\ \E step \in {HeaderStep(line, result, expectingMotivesContinuation)} :
          /\ result' = step.result
          /\ expectingMotivesContinuation' = step.expecting
    /\ UNCHANGED <<currentSection, currentFeature>>
    /\ Advance

\* the hp_stress branch only logs the line
HpStressLine ==
    /\ InLoop
    /\ currentSection = "hp_stress"
    /\ ~IsTrigger(line)
    /\ UNCHANGED <<result, currentSection, currentFeature, expectingMotivesContinuation>>
    /\ Advance

\* the end of parse without the test of the required name (C1 fails of it)
FinishWithoutNameCheck ==
    /\ pc = "loop"
    /\ i > Len(lines)
    /\ result' = Flushed(result, currentFeature)
    /\ pc' = "done"
    /\ UNCHANGED <<text, error, lines, i, currentSection, currentFeature,
                   expectingMotivesContinuation, sectionLog, parser, calls,
                   extracted, dialog>>

\* after the loop: the last feature, then the required name
Finish ==
    /\ pc = "loop"
    /\ i > Len(lines)
    /\ result' = Flushed(result, currentFeature)
    /\ IF result.name = ""
       THEN pc' = "failed" /\ error' = "errors.noName"
       ELSE pc' = "done" /\ error' = error
    /\ UNCHANGED <<text, lines, i, currentSection, currentFeature,
                   expectingMotivesContinuation, sectionLog, parser, calls,
                   extracted, dialog>>

\* the parse has ended, with a record returned or an error thrown
Ended == pc \in {"done", "failed"}

Next ==
    \/ Begin
    \/ FeaturesTrigger
    \/ HpStressTrigger
    \/ ExperienceTrigger
    \/ HeaderLine
    \/ ExperienceLine
    \/ FeaturesLine
    \/ HpStressLine
    \/ Finish

Spec == Init /\ [][Next]_vars

(***************************************************************************)
(* Several calls of parse, one after the other, on parser instances: parse  *)
(* is an async function without an await, so a call runs to its end before  *)
(* the next one starts.                                                     *)
(***************************************************************************)
\* the number of calls of parse in one behaviour
MaxCalls == 3

\* a statblock that takes the parse through every section
EverySectionLines ==
    <<"DIRE WOLF", "Experience:", "Lore +2", "FEATURES", "Bite - Action",
      "HP & STRESS", "STRESS 3">>

\* the texts the calls are made with
CallTexts ==
    {StringValue(JoinLines(EverySectionLines)), MalformedText,
     StringValue("Difficulty: 12"), StringValue(EmptyText)}

\* two instances, constructed under different debug settings
Parsers == {NewParser(1, FALSE), NewParser(2, TRUE)}

InitCalls ==
    /\ text \in CallTexts
    /\ parser \in Parsers
    /\ pc = "start"
    /\ error = ""
    /\ lines = <<>>
    /\ i = 1
    /\ result = NewResult
    /\ currentSection = "header"
    /\ currentFeature = Null
    /\ expectingMotivesContinuation = FALSE
    /\ sectionLog = <<>>
    /\ calls = <<>>
    /\ dialog = NoDialog
    /\ extracted = Null

\* what the caller of parse got: the record returned or the error thrown
Returned ==
    [text |-> text, parser |-> parser, pc |-> pc, error |-> error,
     result |-> IF pc = "done" THEN <<result>> ELSE Null]

\* the next call, with the record of the call before it in place of a fresh one
\* (C16 fails of it)
NextCallKeepingResult ==
    /\ Ended
    /\ Len(calls) + 1 < MaxCalls
    /\ calls' = Append(calls, Returned)
    /\ text' \in CallTexts
    /\ parser' \in Parsers
    /\ pc' = "start"
    /\ error' = ""
    /\ lines' = <<>>
    /\ i' = 1
    /\ currentSection' = "header"
    /\ currentFeature' = Null
    /\ expectingMotivesContinuation' = FALSE
    /\ sectionLog' = <<>>
    /\ UNCHANGED <<result, extracted, dialog>>

\* the call has ended and the next one starts, on any instance: result,
\* currentSection, currentFeature and expectingMotivesContinuation are locals of
\* parse, allocated anew
NextCall ==
    /\ Ended
    /\ Len(calls) + 1 < MaxCalls
    /\ calls' = Append(calls, Returned)
    /\ text' \in CallTexts
    /\ parser' \in Parsers
    /\ pc' = "start"
    /\ error' = ""
    /\ lines' = <<>>
    /\ i' = 1
    /\ result' = NewResult
    /\ currentSection' = "header"
    /\ currentFeature' = Null
    /\ expectingMotivesContinuation' = FALSE
    /\ sectionLog' = <<>>
    /\ UNCHANGED <<extracted, dialog>>

NextCalls == Next \/ NextCall

SpecCalls == InitCalls /\ [][NextCalls]_vars

(***************************************************************************)
(* _parseFeatureHeader on its own, applied to one line.                     *)
(***************************************************************************)
HeaderNames == {"Relentless", "Pack Tactics", "Counter"}

HeaderValues == {"", " (2)", " (13)", "(7)"}

HeaderSeparators == {" - ", "-", " -  ", ": ", " "}

HeaderTypeWords == {"Action", "passive", "REACTION", "Attack"}

HeaderTrailers == {"", " "}

\* the lines given to the extractor: a name, a value or none, a separator, a
\* type word or another word, and white space or none at the end
HeaderLines ==
    {n \o v \o sep \o t \o e :
        n \in HeaderNames, v \in HeaderValues, sep \in HeaderSeparators,
        t \in HeaderTypeWords, e \in HeaderTrailers}

InitExtract ==
    /\ text \in {StringValue(l) : l \in HeaderLines}
    /\ pc = "extract"
    /\ extracted = Null
    /\ error = ""
    /\ lines = <<>>
    /\ i = 1
    /\ result = NewResult
    /\ currentSection = "header"
    /\ currentFeature = Null
    /\ expectingMotivesContinuation = FALSE
    /\ sectionLog = <<>>
    /\ parser = NewParser(1, FALSE)
    /\ calls = <<>>
    /\ dialog = NoDialog

\* const featureMatch = this._parseFeatureHeader(line)
Extract ==
    /\ pc = "extract"
    /\ extracted' = <<ParseFeatureHeader(text.str)>>
    /\ pc' = "extracted"
    /\ UNCHANGED <<text, error, lines, i, result, currentSection, currentFeature,
                   expectingMotivesContinuation, sectionLog, parser, calls, dialog>>

SpecExtract == InitExtract /\ [][Extract]_vars

(***************************************************************************)
(* _parseFeatureHeaderFlexible on its own, applied to one line.             *)
(***************************************************************************)
FlexibleNames == {"Relentless", "Pack Tactics", "Hit", "Bite"}

FlexibleValues == {"", " (3)", "(12)"}

FlexibleSeparators == {": ", ":", " : ", " "}

\* the lines given to the flexible extractor: a name, a value or none, a colon
\* or white space, a type word or another word, and white space or none at the end
FlexibleLines ==
    {n \o v \o sep \o t \o e :
        n \in FlexibleNames, v \in FlexibleValues, sep \in FlexibleSeparators,
        t \in HeaderTypeWords, e \in HeaderTrailers}

InitFlexible ==
    /\ text \in {StringValue(l) : l \in FlexibleLines}
    /\ pc = "extractFlexible"
    /\ extracted = Null
    /\ error = ""
    /\ lines = <<>>
    /\ i = 1
    /\ result = NewResult
    /\ currentSection = "features"
    /\ currentFeature = Null
    /\ expectingMotivesContinuation = FALSE
    /\ sectionLog = <<>>
    /\ parser = NewParser(1, FALSE)
    /\ calls = <<>>
    /\ dialog = NoDialog

\* this._parseFeatureHeaderFlexible(line)
ExtractFlexible ==
    /\ pc = "extractFlexible"
    /\ extracted' = <<ParseFeatureHeaderFlexible(text.str)>>
    /\ pc' = "extractedFlexible"
    /\ UNCHANGED <<text, error, lines, i, result, currentSection, currentFeature,
                   expectingMotivesContinuation, sectionLog, parser, calls, dialog>>

SpecFlexible == InitFlexible /\ [][ExtractFlexible]_vars


(***************************************************************************)
(* ImportDialog._onImport: the handler of the import button.  It awaits     *)
(* parse and createActor, so it runs in steps; the steps of parse are the   *)
(* actions above.                                                           *)
(***************************************************************************)
\* the number of clicks on the import button in one behaviour
MaxAttempts == 2

\* what the text area may hold at a click
DialogTexts ==
    {"", " \t\n", "  " \o JoinLines(EverySectionLines) \o "\n",
     JoinLines(MalformedLines), "Difficulty: 12"}

\* game.system.id
SystemIds == {"daggerheart", "dnd5e"}

\* the label of the import button as the dialog was built
ImportLabel == "button.import"

\* the dialog as rendered: nothing typed, the button enabled, nothing notified
NewDialog(systemId) ==
    [pc |-> "idle", statblockText |-> "", disabled |-> FALSE, html |-> ImportLabel,
     originalText |-> "", notifications |-> <<>>, closed |-> FALSE, actor |-> Null,
     rendered |-> FALSE, caught |-> "", systemId |-> systemId, attempts |-> 0]

\* ui.notifications.warn / info / error
Notified(d, level, key) ==
    [d EXCEPT !.notifications = Append(@, [level |-> level, key |-> key])]

InitDialog ==
    /\ dialog \in {NewDialog(s) : s \in SystemIds}
    /\ text = StringValue("")
    /\ pc = "idle"
    /\ error = ""
    /\ lines = <<>>
    /\ i = 1
    /\ result = NewResult
    /\ currentSection = "header"
    /\ currentFeature = Null
    /\ expectingMotivesContinuation = FALSE
    /\ sectionLog = <<>>
    /\ parser = NewParser(1, FALSE)
    /\ calls = <<>>
    /\ extracted = Null

\* the variables of parse, which the dialog's own steps leave alone
parseVars ==
    <<text, pc, error, lines, i, result, currentSection, currentFeature,
      expectingMotivesContinuation, sectionLog, parser, calls, extracted>>

\* the click: the trimmed text of the text area; a warning and nothing else when
\* it is empty, otherwise the button is disabled and shows the spinner
OnImport ==
    /\ dialog.pc = "idle"
    /\ ~dialog.closed
    /\ dialog.attempts < MaxAttempts
    /\ \E value \in DialogTexts :
          IF Trim(value) = ""
          THEN dialog' = [Notified(dialog, "warn", "notifications.empty") EXCEPT
                             !.statblockText = "",
                             !.attempts = @ + 1]
          ELSE dialog' = [dialog EXCEPT
                             !.statblockText = Trim(value),
                             !.originalText = dialog.html,
                             !.disabled = TRUE,
                             !.html = "notifications.parsing",
                             !.caught = "",
                             !.attempts = @ + 1,
                             !.pc = "try"]
    /\ UNCHANGED parseVars

\* the start of the try block: the notification, a new parser, the call of parse
StartParse ==
    /\ dialog.pc = "try"
    /\ dialog' = [Notified(dialog, "info", "notifications.parsing") EXCEPT
                     !.pc = "parsing"]
    /\ parser' = NewParser(dialog.attempts, FALSE)
    /\ text' = StringValue(dialog.statblockText)
    /\ pc' = "start"
    /\ error' = ""
    /\ lines' = <<>>
    /\ i' = 1
    /\ result' = NewResult
    /\ currentSection' = "header"
    /\ currentFeature' = Null
    /\ expectingMotivesContinuation' = FALSE
    /\ sectionLog' = <<>>
    /\ UNCHANGED <<calls, extracted>>

\* parse returned parsedData: the button shows the second spinner
ParseReturned ==
    /\ dialog.pc = "parsing"
    /\ pc = "done"
    /\ dialog' = [dialog EXCEPT !.html = "notifications.creating", !.pc = "creating"]
    /\ UNCHANGED parseVars

\* parse threw: control goes to the catch block
ParseThrew ==
    /\ dialog.pc = "parsing"
    /\ pc = "failed"
    /\ dialog' = [dialog EXCEPT !.caught = error, !.pc = "catch"]
    /\ UNCHANGED parseVars

\* createActor throws unless the system is daggerheart; after it returned the
\* actor: the success notification, this.close() and actor.sheet.render(true)
CreateActor ==
    /\ dialog.pc = "creating"
    /\ IF dialog.systemId # "daggerheart"
       THEN dialog' = [dialog EXCEPT !.caught = "This module requires the Daggerheart system",
                                     !.pc = "catch"]
       ELSE dialog' = [Notified(dialog, "info", "notifications.success") EXCEPT
                          !.actor = <<[name |-> result.name]>>,
                          !.closed = TRUE,
                          !.rendered = TRUE,
                          !.pc = "finally"]
    /\ UNCHANGED parseVars

\* the catch block
Catch ==
    /\ dialog.pc = "catch"
    /\ dialog' = [Notified(dialog, "error", "notifications.error") EXCEPT !.pc = "finally"]
    /\ UNCHANGED parseVars

\* the finally block without importButton.html(originalText) (C28 fails of it)
FinallyKeepingLabel ==
    /\ dialog.pc = "finally"
    /\ dialog' = [dialog EXCEPT !.disabled = FALSE, !.pc = "idle"]
    /\ UNCHANGED parseVars

\* the finally block: the button is enabled and shows its label again
Finally ==
    /\ dialog.pc = "finally"
    /\ dialog' = [dialog EXCEPT !.disabled = FALSE, !.html = dialog.originalText, !.pc = "idle"]
    /\ UNCHANGED parseVars

NextDialog ==
    \/ OnImport
    \/ StartParse
    \/ Next
    \/ ParseReturned
    \/ ParseThrew
    \/ CreateActor
    \/ Catch
    \/ Finally

SpecDialog == InitDialog /\ [][NextDialog]_vars


(***************************************************************************)
(* The claims.                                                             *)
(***************************************************************************)
\* C1: for an input with at least one non-blank line, parse throws the
\* missing-name error exactly when name is still empty once every line has been
\* processed: the error is never raised while a line is left, nothing else makes
\* such a parse fail, and every record returned has a non-empty name.
C1_MissingNameOnlyAtEnd ==
    /\ (pc = "failed" /\ Len(lines) > 0) =>
          /\ error = "errors.noName"
          /\ i = Len(lines) + 1
          /\ result.name = ""
    /\ error = "errors.noName" => pc = "failed" /\ Len(lines) > 0
    /\ pc = "loop" => error = ""
    /\ pc = "done" => result.name # "" /\ i = Len(lines) + 1 /\ error = ""
    /\ (Ended /\ Len(lines) > 0) => (pc = "failed" <=> result.name = "")

\* a parse of several lines, none of which gave a name, has thrown at the end
C1_Witness ==
    /\ pc = "failed"
    /\ error = "errors.noName"
    /\ Len(lines) >= 2
    /\ Len(sectionLog) = Len(lines)

\* the text is only white space, line breaks included
BlankOnly(s) == \A k \in 1..Len(s) : IsSpace(CharAt(s, k))

\* C2: when the text is missing, is not a string, is the empty string or holds
\* only blank lines, parse throws the empty-input error and returns no record,
\* and it does so before any line is processed.
C2_EmptyInput ==
    (text.kind # "string" \/ BlankOnly(text.str)) =>
        /\ pc \in {"start", "failed"}
        /\ pc = "failed" => error = "notifications.empty"
        /\ lines = <<>>
        /\ i = 1
        /\ sectionLog = <<>>
        /\ result = NewResult
        /\ currentSection = "header"

\* a text of several white-space lines has been rejected
C2_Witness ==
    /\ pc = "failed"
    /\ error = "notifications.empty"
    /\ text.kind = "string"
    /\ Len(text.str) >= 3
    /\ Includes(text.str, "\n")

\* no line after the first is a tier/type line, modern or legacy
NoOtherTierLine ==
    \A j \in 2..Len(lines) :
        ~MatchTierType(lines[j]).ok /\ ~MatchLegacyNameType(lines[j]).ok

\* the first line is "<n> T<d> <st>"
LegacyFirst(n, d, st) == Len(lines) > 0 /\ lines[1] = LegacyLine(n, d, st)

FeatureTypesOf(res) == [k \in 1..Len(res.features) |-> res.features[k].type]

\* the names of the features, in order
FeatureNamesOf(res) == [k \in 1..Len(res.features) |-> res.features[k].name]

C5_AsStated ==
    pc = "done" =>
        /\ \A k \in 1..Len(result.features) :
              result.features[k].value # "" => ~Includes(result.features[k].name, "(")
        /\ text = AcidBurrowerText =>
              FeatureNamesOf(result) = <<"Relentless", "Earth Eruption", "Acid Bath">>

\* the section in force when line j is read
SectionBefore(j) == IF j = 1 THEN "header" ELSE sectionLog[j - 1]

\* the first line that holds the word FEATURES, 0 when there is none
FirstFeaturesLine ==
    IF \E j \in 1..Len(lines) : UpperIncludes(lines[j], "FEATURES")
    THEN Min({j \in 1..Len(lines) : UpperIncludes(lines[j], "FEATURES")})
    ELSE 0

\* line f is the FEATURES line and a strict header follows it, if anything does
HeadersInSequence(f) ==
    /\ f > 0
    /\ IsFeaturesTrigger(lines[f])
    /\ f < Len(lines) => ParseFeatureHeader(lines[f + 1]).ok

\* the strict headers below line f, in source order
HeadersBelow(f) ==
    SelectSeq(SubSeq(lines, f + 1, Len(lines)), LAMBDA l : ParseFeatureHeader(l).ok)

\* the feature a strict header stands for
FeatureOf(l) == NewFeature(ParseFeatureHeader(l))[1]

\* the features of the record are those of the headers hs, one each, in order
FeaturesFollow(hs) ==
    /\ Len(result.features) = Len(hs)
    /\ \A k \in 1..Len(hs) :
          /\ result.features[k].name = FeatureOf(hs[k]).name
          /\ result.features[k].type = FeatureOf(hs[k]).type
          /\ result.features[k].value = FeatureOf(hs[k]).value

\* C6 as stated: for N strict feature headers in sequence after the FEATURES line,
\* each optionally followed by description lines, features has length N and
\* features[i] is the feature of the i-th header in source order.
C6_AsStated ==
    (pc = "done" /\ HeadersInSequence(FirstFeaturesLine)) =>
        FeaturesFollow(HeadersBelow(FirstFeaturesLine))

\* C6, amended: the same, when no line below the FEATURES line is a section
\* trigger (a line with FEATURES and no colon, a line with HP, STRESS and "&", or
\* a line that is only "Experience:").
C6_FeatureOrder ==
    (/\ pc = "done"
     /\ HeadersInSequence(FirstFeaturesLine)
     /\ \A j \in (FirstFeaturesLine + 1)..Len(lines) : ~IsTrigger(lines[j])) =>
        FeaturesFollow(HeadersBelow(FirstFeaturesLine))

\* two headers below the FEATURES line, one of them with a description line, gave
\* two features
C6_Witness ==
    /\ pc = "done"
    /\ HeadersInSequence(FirstFeaturesLine)
    /\ \A j \in (FirstFeaturesLine + 1)..Len(lines) : ~IsTrigger(lines[j])
    /\ Len(HeadersBelow(FirstFeaturesLine)) = 2
    /\ Len(lines) = FirstFeaturesLine + 3
    /\ Len(result.features) = 2
    /\ \E k \in 1..2 : result.features[k].description # ""

RECURSIVE JoinSpaced(_)
JoinSpaced(seq) ==
    IF Len(seq) = 0 THEN ""
    ELSE IF Len(seq) = 1 THEN seq[1]
    ELSE seq[1] \o " " \o JoinSpaced(Tail(seq))

\* line h is a strict feature header read in the features section
HeaderInFeatures(h) ==
    /\ SectionBefore(h) = "features"
    /\ ~IsTrigger(lines[h])
    /\ ParseFeatureHeader(lines[h]).ok

\* the first line below h that is a strict header or switches the section
BoundaryAfter(h) ==
    Min({j \in (h + 1)..Len(lines) :
            IsTrigger(lines[j]) \/ ParseFeatureHeader(lines[j]).ok}
        \cup {Len(lines) + 1})

\* C7 as stated: the description of a feature is the single-space join, in source
\* order, of every line between its header and the next recognized header or
\* section boundary, none omitted.
C7_AsStated ==
    pc = "done" =>
        \A h \in 1..Len(lines) :
            HeaderInFeatures(h) =>
                \E k \in 1..Len(result.features) :
                    /\ result.features[k].name = FeatureOf(lines[h]).name
                    /\ result.features[k].description =
                          JoinSpaced(SubSeq(lines, h + 1, BoundaryAfter(h) - 1))

\* C8 as stated, for a statblock whose first line gave the name and whose last two
\* lines are "Motives & Tactics:" and a line of plain text: motivesAndTactics is
\* that text, and no other field holds it.
C8_AsStated ==
    (/\ pc = "done"
     /\ Len(lines) >= 3
     /\ MatchLegacyNameType(lines[1]).ok
     /\ ~IsTrigger(lines[1])
     /\ NoOtherTierLine
     /\ IsMotivesHeaderOnly(lines[Len(lines) - 1])
     /\ sectionLog[Len(lines) - 1] = "header"
     /\ ~IsTrigger(lines[Len(lines)])
     /\ ~Includes(lines[Len(lines)], ":")) =>
        /\ result.motivesAndTactics = lines[Len(lines)]
        /\ result.description # lines[Len(lines)]
        /\ result.name # lines[Len(lines)]

\* C9 as stated: once name is non-empty no later line changes it, and the
\* environment fixture, which holds two statblocks, returns the name of the first.
C9_AsStated ==
    [][/\ result.name # "" => result'.name = result.name
       /\ (pc' = "done" /\ text = EnvironmentText) => result'.name = "ABANDONED GROVE"]_vars

\* every section the parse has been in is one of the four
SectionsKnown ==
    /\ currentSection \in Sections
    /\ \A j \in 1..Len(sectionLog) : sectionLog[j] \in Sections

\* the section becomes header only where it was header or experience
HeaderOnlyFromExperience ==
    \A j \in 1..Len(sectionLog) :
        sectionLog[j] = "header" => SectionBefore(j) \in {"header", "experience"}

\* C10 as stated: the section is always one of the four, it is never header again
\* once it has been features or hp_stress, and header is entered only from
\* experience.
C10_AsStated ==
    /\ SectionsKnown
    /\ HeaderOnlyFromExperience
    /\ \A j, k \in 1..Len(sectionLog) :
          (j < k /\ sectionLog[j] \in {"features", "hp_stress"}) => sectionLog[k] # "header"

\* C10, amended: the section is always one of the four and header is entered only
\* from experience; after features or hp_stress the section can be header again,
\* by way of experience.
C10_Sections == SectionsKnown /\ HeaderOnlyFromExperience

\* a parse went from features to experience and from there back to header
C10_Witness ==
    \E j \in 1..Len(sectionLog) :
        /\ j + 2 <= Len(sectionLog)
        /\ sectionLog[j] = "features"
        /\ sectionLog[j + 1] = "experience"
        /\ sectionLog[j + 2] = "header"

\* the line holds a tier token: a capital T followed by a digit
HasTierToken(l) ==
    \E k \in 1..Len(l) : CharAt(l, k) = "T" /\ IsDigit(CharAt(l, k + 1))

\* the lines have the shape of the malformed fixture: "Difficulty: <int>",
\* "Attack: <signed int>" and a line of free text without colon or tier token
MalformedShape ==
    /\ Len(lines) = 3
    /\ MatchDifficulty(lines[1]).ok
    /\ MatchAttack(lines[2]).ok
    /\ ~Includes(lines[3], ":")
    /\ ~HasTierToken(lines[3])
    /\ ~IsTrigger(lines[3])

\* C11 as stated: for the lines "Difficulty: <int>", "Attack: <signed int>" and a
\* free-text line that has no colon and no tier token, as in the malformed
\* fixture, parse returns no record and fails with the missing-name error.
C11_AsStated ==
    /\ MalformedShape => pc # "done"
    /\ (MalformedShape /\ Ended) => (pc = "failed" /\ error = "errors.noName")
    /\ text = MalformedText => pc # "done"

\* the type a tier/type line asks for
TypeAskedBy(l) == IF LowerIncludes(l, "environment") THEN "environment" ELSE "adversary"

\* line j was read in the header section and is no section trigger
ReadInHeader(j) == SectionBefore(j) = "header" /\ ~IsTrigger(lines[j])

\* line j carries the tier and type, in the modern or in the legacy form
TierLine(j) ==
    \/ MatchTierType(lines[j]).ok /\ Includes(lines[j], "T")
    \/ MatchLegacyNameType(lines[j]).ok

\* C12 as stated: where one line of the statblock carries the tier and type, in
\* the modern form "T<digits> <type>" or in the legacy form "<Name> T<digits>
\* <type>", the record returned has type "environment" if that line contains the
\* word environment in any letter case, and "adversary" if it does not.
C12_AsStated ==
    pc = "done" =>
        \A j \in 1..Len(lines) :
            (/\ ReadInHeader(j)
             /\ TierLine(j)
             /\ \A k \in 1..Len(lines) : TierLine(k) => k = j) =>
                result.type = TypeAskedBy(lines[j])

\* the line about to be read is a modern-form tier/type line that the name/type
\* extractor will take as such
ReadsModernTierLine ==
    /\ InLoop
    /\ currentSection = "header"
    /\ ~IsTrigger(line)
    /\ MatchTierType(line).ok
    /\ ~(result.name = "" /\ ~Includes(line, "T") /\ ~Includes(line, ":"))

\* C12, amended: type is "adversary" when parse starts; a modern-form line
\* "T<digits> <type>" read by the name/type extractor sets it to "environment"
\* if the line contains the word environment in any letter case and to
\* "adversary" if not; no other line, a legacy-form line included, changes it.
C12_TypeByModernLine ==
    [][/\ pc = "start" => result.type = "adversary"
       /\ IF ReadsModernTierLine
          THEN result'.type = TypeAskedBy(line)
          ELSE result'.type = result.type]_vars

\* a modern-form environment line set the type and a legacy-form line after it
\* left the type alone
C12_Witness ==
    /\ pc = "done"
    /\ lines = <<"DIRE WOLF", "T1 Traversal - Environment", "GROVE T1 Social - ENVIRONMENT">>
    /\ result.type = "environment"
    /\ result.name = "GROVE"

\* some line so far has put the parse in the features section
FeaturesSectionEntered ==
    \E j \in 1..Len(sectionLog) : sectionLog[j] = "features"

\* C13: as long as no line has triggered the features section there is no feature,
\* recorded or in progress; a parse that ends so returns a record exactly when a
\* name was recognized, with features = []; the Giant Rat fixture returns name
\* "GIANT RAT", difficulty 10 and no feature.
C13_NoFeaturesSection ==
    /\ ~FeaturesSectionEntered =>
          /\ result.features = <<>>
          /\ currentFeature = Null
    /\ (Ended /\ Len(lines) > 0 /\ ~FeaturesSectionEntered) =>
          (pc = "done" <=> result.name # "")
    /\ text = GiantRatText =>
          /\ pc # "failed"
          /\ ~FeaturesSectionEntered
          /\ pc = "done" =>
                /\ result.name = "GIANT RAT"
                /\ result.difficulty = 10
                /\ result.features = <<>>

\* the Giant Rat fixture was parsed to its end
C13_Witness ==
    /\ text = GiantRatText
    /\ pc = "done"
    /\ Len(sectionLog) = 9
    /\ sectionLog[9] = "hp_stress"
    /\ result.features = <<>>

LowerCaseTypes == {"passive", "action", "reaction"}

\* C15: every feature, recorded or in progress, has a type that is one of
\* "passive", "action", "reaction" in lower case, whatever the letter case of its
\* header; every entry of experiences has a non-empty name and a non-negative
\* integer value.
C15_TypesAndExperiences ==
    /\ \A k \in 1..Len(result.features) : result.features[k].type \in LowerCaseTypes
    /\ currentFeature # Null => currentFeature[1].type \in LowerCaseTypes
    /\ \A k \in 1..Len(result.experiences) :
          /\ result.experiences[k].name # ""
          /\ result.experiences[k].value \in Nat

\* a record was returned with two experiences and with features whose headers had
\* the type in upper and in lower case
C15_Witness ==
    /\ pc = "done"
    /\ text = ExperienceAndFeaturesText
    /\ FeatureTypesOf(result) = <<"reaction", "passive">>
    /\ Len(result.experiences) = 2
    /\ result.experiences[1] = [name |-> "Pack Hunter", value |-> 2]
    /\ result.experiences[2].value = 13

\* the calls that have ended, the current one included once it has
EndedCalls == IF Ended THEN Append(calls, Returned) ELSE calls

\* C16: two calls of parse with the same text, on the same or on different parser
\* instances and whatever calls were made before or between them, return equal
\* records or fail with the same error.
C16_Deterministic ==
    \A a, b \in 1..Len(EndedCalls) :
        EndedCalls[a].text = EndedCalls[b].text =>
            /\ EndedCalls[a].pc = EndedCalls[b].pc
            /\ EndedCalls[a].error = EndedCalls[b].error
            /\ EndedCalls[a].result = EndedCalls[b].result

\* the same statblock was parsed on two instances, with a failed parse of another
\* text between the two calls
C16_Witness ==
    /\ pc = "done"
    /\ Len(calls) = 2
    /\ calls[1].text = text
    /\ calls[1].parser # parser
    /\ calls[1].pc = "done"
    /\ Len(calls[1].result[1].features) = 1
    /\ calls[2].text # text
    /\ calls[2].pc = "failed"
    /\ calls[2].error = "errors.noName"

\* the line about to be read in the header section, with no motives continuation
\* pending, is one that none of the three header extractors accepts
HeaderDrops ==
    /\ InLoop
    /\ currentSection = "header"
    /\ ~IsTrigger(line)
    /\ ~expectingMotivesContinuation
    /\ ~ParseNameAndType(line, result).ok
    /\ ~ParseDescription(line, result).ok
    /\ ~ParseBasicStats(line, result).ok

\* the line about to be read in the features section is no header, strict or
\* (without a feature in progress) flexible, and is not taken as description
FeaturesDrops ==
    /\ InLoop
    /\ currentSection = "features"
    /\ ~IsTrigger(line)
    /\ ~ParseFeatureHeader(line).ok
    /\ IF currentFeature # Null
       THEN IsNewSection(line)
       ELSE IsNewSection(line) \/ ~ParseFeatureHeaderFlexible(line).ok

\* C17: a line that is no section trigger and that no extractor of the current
\* section accepts, read in the header section with no motives continuation
\* pending or in the features section, changes nothing: the record, the section,
\* the feature in progress and the continuation flag stay as they are, no error is
\* raised, and the parse goes on with the next line.
C17_DroppedLine ==
    [][(HeaderDrops \/ FeaturesDrops) =>
          /\ result' = result
          /\ currentSection' = currentSection
          /\ currentFeature' = currentFeature
          /\ expectingMotivesContinuation' = expectingMotivesContinuation
          /\ pc' = "loop"
          /\ error' = ""
          /\ i' = i + 1]_vars

\* a record was returned for a statblock with a feature header in the header
\* section, a line of text before the first feature and a line on HP and Stress
\* below the last one: none of the three left a trace
C17_Witness ==
    /\ pc = "done"
    /\ text = ExperienceAndFeaturesText
    /\ Len(sectionLog) = 13
    /\ result.description = ""
    /\ Len(result.features) = 2
    /\ result.features[1].description = "Sharp claws."
    /\ result.features[2].description = "Howl Action"

\* the extractor has been applied to the line l
Extracted(l) == pc = "extracted" /\ text.str = l

\* the words the header patterns take as a type, in the letter cases tried
TypeWordsGiven == {t \in HeaderTypeWords : ToLowerCase(t) \in LowerCaseTypes}

\* for "<name> (<digits>) - <type>": name without the parenthesized part, type in
\* lower case, value the digits
ValueHeaderExtracted ==
    \A n \in HeaderNames, d \in {"2", "13"}, t \in TypeWordsGiven :
        Extracted(n \o " (" \o d \o ") - " \o t) =>
            extracted[1] = [ok |-> TRUE, name |-> n, type |-> ToLowerCase(t), value |-> d]

\* for "<name> - <type>": value ""
PlainHeaderExtracted ==
    \A n \in HeaderNames, t \in TypeWordsGiven :
        Extracted(n \o " - " \o t) =>
            extracted[1] = [ok |-> TRUE, name |-> n, type |-> ToLowerCase(t), value |-> ""]

\* the line ends in " - <type>", the type in any letter case
EndsInDashType(l) ==
    \E t \in LowerCaseTypes :
        /\ Len(l) >= Len(t) + 3
        /\ MatchCI(l, Len(l) - Len(t) + 1, t)
        /\ SubSeq(l, Len(l) - Len(t) - 2, Len(l) - Len(t)) = " - "

\* C18 as stated: the strict extractor returns name, lower-case type and value for
\* "<name> (<digits>) - <type>", value "" for "<name> - <type>", and no match for
\* every line that does not end in " - <type>".
C18_AsStated ==
    /\ ValueHeaderExtracted
    /\ PlainHeaderExtracted
    /\ (pc = "extracted" /\ ~EndsInDashType(text.str)) => ~extracted[1].ok

\* read from its end, the line is: white space or none, a type word in any letter
\* case, white space or none, a hyphen, and at least one character before it
EndsInHyphenType(l) ==
    \E t \in LowerCaseTypes :
        LET b == LastNonSpace(l, Len(l)) - Len(t) + 1
            h == LastNonSpace(l, b - 1)
        IN  /\ MatchCI(l, b, t)
            /\ h >= 2
            /\ CharAt(l, h) = "-"

\* C18, amended: the same for the two forms of header; a line matches exactly when
\* it ends in a hyphen and a type word, with or without white space before the
\* hyphen, after it and after the type word, and has a character before the
\* hyphen; every match has a lower-case type and a value of digits or "".
C18_StrictHeader ==
    /\ ValueHeaderExtracted
    /\ PlainHeaderExtracted
    /\ pc = "extracted" =>
          /\ extracted[1].ok <=> EndsInHyphenType(text.str)
          /\ extracted[1].ok =>
                /\ extracted[1].type \in LowerCaseTypes
                /\ extracted[1].name # ""
                /\ \A k \in 1..Len(extracted[1].value) : IsDigit(CharAt(extracted[1].value, k))

\* the extractor was given "Pack Tactics (13) - REACTION"
C18_Witness ==
    /\ Extracted("Pack Tactics (13) - REACTION")
    /\ extracted[1].ok
    /\ extracted[1].name = "Pack Tactics"
    /\ extracted[1].type = "reaction"
    /\ extracted[1].value = "13"

\* the section becomes s, the feature in progress is recorded, and nothing else of
\* the record changes
FlushesInto(s) ==
    /\ currentSection' = s
    /\ result' = Flushed(result, currentFeature)
    /\ currentFeature' = Null
    /\ expectingMotivesContinuation' = expectingMotivesContinuation

\* the section becomes experience and nothing else changes
StartsExperience ==
    /\ currentSection' = "experience"
    /\ result' = result
    /\ currentFeature' = currentFeature
    /\ expectingMotivesContinuation' = expectingMotivesContinuation

\* C19 as stated: whatever the current section, a line containing FEATURES in any
\* letter case and no colon sets the section to features, a line containing HP,
\* STRESS and "&" sets it to hp_stress, and a line that is exactly "Experience:"
\* sets it to experience; the first two record the feature in progress; in all
\* three cases no extractor sees the line and no other field changes.
C19_AsStated ==
    [][InLoop =>
          /\ IsFeaturesTrigger(line) => FlushesInto("features")
          /\ IsHpStressTrigger(line) => FlushesInto("hp_stress")
          /\ line = "Experience:" => StartsExperience]_vars

\* C19, amended: the three tests are made in this order and the first that holds
\* decides, so a line containing HP, STRESS and "&" sets the section to hp_stress
\* only if it is not also a line with FEATURES and no colon.
C19_Triggers ==
    [][InLoop =>
          /\ IsFeaturesTrigger(line) => FlushesInto("features")
          /\ (IsHpStressTrigger(line) /\ ~IsFeaturesTrigger(line)) =>
                FlushesInto("hp_stress")
          /\ (/\ IsExperienceSectionStart(line)
              /\ ~IsFeaturesTrigger(line)
              /\ ~IsHpStressTrigger(line)) => StartsExperience]_vars

\* an HP & STRESS line, read in the features section right after a feature
\* header, has just recorded that feature
C19_Witness ==
    /\ Len(sectionLog) >= 3
    /\ i = Len(sectionLog) + 1
    /\ sectionLog[Len(sectionLog)] = "hp_stress"
    /\ sectionLog[Len(sectionLog) - 1] = "features"
    /\ IsHpStressTrigger(lines[Len(sectionLog)])
    /\ ParseFeatureHeader(lines[Len(sectionLog) - 1]).ok
    /\ currentFeature = Null
    /\ Len(result.features) = 1
    /\ result.features[1].name = FeatureOf(lines[Len(sectionLog) - 1]).name

\* the statblock has the modern form: a first line without colon or tier token,
\* the line "T<digits> <type>" next, and no line of the legacy form
ModernForm ==
    /\ Len(lines) >= 2
    /\ ~Includes(lines[1], ":")
    /\ ~HasTierToken(lines[1])
    /\ ~IsTrigger(lines[1])
    /\ MatchTierType(lines[2]).ok
    /\ HasTierToken(lines[2])
    /\ \A j \in 1..Len(lines) : ~MatchLegacyNameType(lines[j]).ok

\* C20 as stated: a line is the whole name only if it has no colon and no tier
\* token (T followed by digits), and the first line of a modern-form statblock,
\* which has neither and is read while no name is set, is taken as the name.
C20_AsStated ==
    /\ \A j \in 1..Len(lines) :
          (result.name # "" /\ result.name = lines[j]) =>
              ~Includes(lines[j], ":") /\ ~HasTierToken(lines[j])
    /\ ModernForm => pc # "failed"
    /\ (ModernForm /\ pc = "done") => result.name = lines[1]

\* the line has no colon and matches none of the stat, tier, strict feature
\* header and experience-line patterns
FreeText(l) ==
    /\ ~Includes(l, ":")
    /\ ~StartsWithStatWord(l)
    /\ ~StartsWithTier(l)
    /\ ~ParseFeatureHeader(l).ok
    /\ ~IsExperienceLine(l)

\* C21: description changes only on a line read in the header section while name
\* is non-empty and description is empty; that line has no colon and matches none
\* of the stat, tier, strict feature header and experience-line patterns, and
\* description becomes the line, which is not empty.  So description is assigned
\* at most once in a parse, and once it is non-empty no later line changes it.
C21_DescriptionOnce ==
    [][/\ result'.description # result.description =>
            /\ InLoop
            /\ currentSection = "header"
            /\ result.name # ""
            /\ result.description = ""
            /\ FreeText(line)
            /\ result'.description = line
            /\ result'.description # ""
       /\ result.description # "" => result'.description = result.description]_vars

\* a record was returned whose description is an earlier line of the header
\* section, and a later line of free text, read in the header section too, did
\* not replace it
C21_Witness ==
    /\ pc = "done"
    /\ result.name # ""
    /\ \E j, k \in 1..Len(lines) :
          /\ j < k
          /\ result.description = lines[j]
          /\ FreeText(lines[k])
          /\ ~IsTrigger(lines[k])
          /\ lines[k] # lines[j]
          /\ SectionBefore(k) = "header"
          /\ sectionLog[k] = "header"

\* the entry that a line of the form "<name> +<number>" stands for
ExperienceOf(l) ==
    [name |-> MatchExperienceLine(l).name, value |-> MatchExperienceLine(l).value]

\* the line about to be read has the form "<name> +<number>" and is read while
\* the section is experience
ReadsExperienceEntry ==
    /\ InLoop
    /\ currentSection = "experience"
    /\ MatchExperienceLine(line).ok

\* the entry of the line is appended to experiences and nothing else changes
AppendsExperience ==
    /\ result' = [result EXCEPT !.experiences = Append(@, ExperienceOf(line))]
    /\ currentSection' = currentSection
    /\ currentFeature' = currentFeature
    /\ expectingMotivesContinuation' = expectingMotivesContinuation

\* experiences changes only by an entry read while the section is experience
ExperiencesOnlyInSection ==
    result'.experiences # result.experiences => ReadsExperienceEntry

\* C22 as stated: while the section is experience, every line of the form
\* "<name> +<number>" appends its entry to the end of experiences and leaves the
\* section and every other field unchanged; experiences is appended to in no
\* other section.
C22_AsStated ==
    [][/\ ReadsExperienceEntry => AppendsExperience
       /\ ExperiencesOnlyInSection]_vars

\* C22, amended: the same for every such line that is no section trigger; a line
\* of that form that holds FEATURES and no colon, or HP, STRESS and "&", changes
\* the section and appends nothing.
C22_ExperienceEntries ==
    [][/\ (ReadsExperienceEntry /\ ~IsTrigger(line)) => AppendsExperience
       /\ (ReadsExperienceEntry /\ IsTrigger(line)) =>
             /\ result'.experiences = result.experiences
             /\ currentSection' # "experience"
       /\ ExperiencesOnlyInSection]_vars

\* a record was returned for a statblock whose experience block holds two
\* entries: experiences lists them in the order of the lines
C22_Witness ==
    /\ pc = "done"
    /\ Len(lines) = 4
    /\ lines[2] = "Experience:"
    /\ MatchExperienceLine(lines[3]).ok
    /\ MatchExperienceLine(lines[4]).ok
    /\ lines[3] # lines[4]
    /\ result.experiences = <<ExperienceOf(lines[3]), ExperienceOf(lines[4])>>
    /\ result.experiences[2] = [name |-> "Keen  Nose", value |-> 13]

\* the line about to be read is read while the section is experience and has
\* not the form "<name> +<number>"
ReadsOtherInExperience ==
    /\ InLoop
    /\ currentSection = "experience"
    /\ ~MatchExperienceLine(line).ok

\* the section becomes header and the line is given to the basic-stat extractor
\* and to nothing else: name, type, tier, subtype and description stay
RetriedAsBasicStats ==
    /\ currentSection' = "header"
    /\ result' = ParseBasicStats(line, result).result
    /\ result'.name = result.name
    /\ result'.type = result.type
    /\ result'.tier = result.tier
    /\ result'.subtype = result.subtype
    /\ result'.description = result.description
    /\ currentFeature' = currentFeature

\* what a line without the entry form does in the experience branch
EndsExperience ==
    /\ currentSection' # "experience"
    /\ IF MotivesPrefixEnd(line) # 0
       THEN /\ RetriedAsBasicStats
            /\ expectingMotivesContinuation' =
                  (IsMotivesHeaderOnly(line) \/ expectingMotivesContinuation)
       ELSE IF UpperIncludes(line, "FEATURES")
       THEN /\ currentSection' = "features"
            /\ result' = result
            /\ currentFeature' = currentFeature
            /\ expectingMotivesContinuation' = expectingMotivesContinuation
       ELSE /\ RetriedAsBasicStats
            /\ expectingMotivesContinuation' = expectingMotivesContinuation

\* C23 as stated: while the section is experience, a line that has not the form
\* "<name> +<number>" always ends the experience section on that line: a
\* "Motives & Tactics:" line switches to header and is parsed there, arming the
\* continuation when nothing follows the colon; a line with FEATURES switches to
\* features; any other line switches to header and is given to the basic-stat
\* extractor only, never to the name, tier/type or description extractors.
C23_AsStated == [][ReadsOtherInExperience => EndsExperience]_vars

\* C23, amended: the same for every such line that is no section trigger.  A
\* bare "Experience:" line keeps the section experience, a line with HP, STRESS
\* and "&" switches to hp_stress, not to header, and a line with FEATURES and no
\* colon records the feature in progress on its way to features.
C23_OtherLineEndsExperience ==
    [][/\ (ReadsOtherInExperience /\ ~IsTrigger(line)) => EndsExperience
       /\ (ReadsOtherInExperience /\ IsExperienceSectionStart(line) /\ ~IsFeaturesTrigger(line) /\ ~IsHpStressTrigger(line)) =>
             currentSection' = "experience" /\ result' = result
       /\ (ReadsOtherInExperience /\ IsHpStressTrigger(line) /\ ~IsFeaturesTrigger(line)) =>
             currentSection' = "hp_stress"]_vars

\* a record was returned for a statblock whose experience block of one entry is
\* followed by a line of free text: the line ended the block and, with a name set
\* and no description yet, was not taken as the description
C23_Witness ==
    /\ pc = "done"
    /\ sectionLog = <<"header", "experience", "experience", "header">>
    /\ FreeText(lines[4])
    /\ ~ParseNameAndType(lines[4], result).ok
    /\ Len(result.experiences) = 1
    /\ result.name = lines[1]
    /\ result.description = ""

\* the features started so far: those recorded, then the one in progress
Started(res, feature) == res.features \o feature

\* a feature as its header gave it, without the description
HeaderOf(f) == [name |-> f.name, type |-> f.type, value |-> f.value]

StartedHeaders(res, feature) ==
    [k \in 1..Len(Started(res, feature)) |-> HeaderOf(Started(res, feature)[k])]

\* the line about to be read in the features section, while a feature is in
\* progress, is no strict header
ReadsNonHeaderInProgress ==
    /\ InLoop
    /\ currentSection = "features"
    /\ currentFeature # Null
    /\ ~ParseFeatureHeader(line).ok

\* C24: in the features section, while a feature is in progress, a line that is
\* no strict header never starts a feature, whether or not it has a flexible
\* header form: the features started stay the same ones, and a line that is no
\* section trigger is either appended to the description of the feature in
\* progress or dropped with nothing changed.
C24_FlexibleOnlyWithoutFeature ==
    [][ReadsNonHeaderInProgress =>
          /\ StartedHeaders(result', currentFeature') = StartedHeaders(result, currentFeature)
          /\ ~IsTrigger(line) =>
                /\ result' = result
                /\ currentSection' = "features"
                /\ \/ currentFeature' = WithDescription(currentFeature, line)
                   \/ currentFeature' = currentFeature]_vars

\* a record was returned with one feature whose description is a line of a
\* flexible header form, read while that feature was in progress
C24_Witness ==
    /\ pc = "done"
    /\ Len(result.features) = 1
    /\ \E j \in 2..Len(lines) :
          /\ ParseFeatureHeaderFlexible(lines[j]).ok
          /\ ~ParseFeatureHeader(lines[j]).ok
          /\ ParseFeatureHeader(lines[j - 1]).ok
          /\ SectionBefore(j) = "features"
          /\ sectionLog[j] = "features"
          /\ result.features[1].description = lines[j]

\* the line matches a feature header, strict or flexible
HeaderForm(l) == ParseFeatureHeader(l).ok \/ ParseFeatureHeaderFlexible(l).ok

\* C25 as stated: _isNewSection is false for every line that matches a feature
\* header, strict or flexible, so in the features section such a line is never
\* discarded as a section marker: read right below the FEATURES line, where no
\* feature is in progress, it starts a feature.
C25_AsStated ==
    /\ \A j \in 1..Len(lines) : HeaderForm(lines[j]) => ~IsNewSection(lines[j])
    /\ (/\ pc = "done"
        /\ Len(lines) = 3
        /\ IsFeaturesTrigger(lines[2])
        /\ ~IsTrigger(lines[3])
        /\ HeaderForm(lines[3])) => Len(result.features) = 1

\* the flexible extractor has been applied to the line l
ExtractedFlexible(l) == pc = "extractedFlexible" /\ text.str = l

\* C26 as stated: for "<Name> (<digits>): <type>" the flexible extractor returns
\* the name without the parenthesized part, the digits as value and the type in
\* lower case; for a line without colon, which can only have the form of a bare
\* type word at the end, it matches only when the name is longer than 3
\* characters.
C26_AsStated ==
    /\ \A n \in FlexibleNames, t \in TypeWordsGiven :
          ExtractedFlexible(n \o " (3): " \o t) =>
              extracted[1] = [ok |-> TRUE, name |-> n, type |-> ToLowerCase(t), value |-> "3"]
    /\ (/\ pc = "extractedFlexible"
        /\ ~Includes(text.str, ":")
        /\ extracted[1].ok) => Len(extracted[1].name) > 3

\* the attackInfo that "<n>: <r> | <d><b> <w>" stands for
AttackInfoOf(n, r, d, b, w) ==
    <<[name |-> n, range |-> r, dice |-> d,
       bonus |-> IF b = "" THEN 0 ELSE ParseInt(SubSeq(b, 2, Len(b))),
       damageType |-> IF ToLowerCase(w) \in {"phy", "physical"}
                      THEN "physical" ELSE "magical"]>>

\* the line about to be read in the header section
ReadsInHeader == InLoop /\ currentSection = "header" /\ ~IsTrigger(line)

\* the damage part of the line matches the damage pattern
DamageMatches(l) ==
    MatchAttackLine(l).ok /\ MatchDamage(MatchAttackLine(l).damageInfo).ok

\* C27: a header-section line "<Name>: <range> | <dice>[+<bonus>] <phy|mag|
\* physical|magical>" sets attackInfo to the name, the range, the dice, the bonus
\* (0 when absent) and the damage type physical or magical, and leaves every
\* other field, difficulty, attack, experience and motivesAndTactics among them,
\* unchanged; a line with "|" whose damage part does not match leaves attackInfo
\* unchanged and is still taken as an inline Experience or Motives & Tactics
\* line when it is one.
C27_AttackLine ==
    [][ReadsInHeader =>
          /\ \A n \in AttackNames, r \in AttackRanges, d \in AttackDice, b \in AttackBonuses, w \in DamageWords :
                line = AttackLineOf(n, r, d, b, w) =>
                    result' = [result EXCEPT !.attackInfo = AttackInfoOf(n, r, d, b, w)]
          /\ (Includes(line, "|") /\ ~DamageMatches(line)) =>
                /\ result'.attackInfo = result.attackInfo
                /\ MatchInlineExperience(line).ok =>
                      result'.experience = MatchInlineExperience(line).value
                /\ MatchInlineMotives(line).ok =>
                      result'.motivesAndTactics = MatchInlineMotives(line).content]_vars

\* a record was returned for a statblock whose four stats were set before the
\* attack line "Claws: Very Close | 1d12+2 phy"
C27_Witness ==
    /\ pc = "done"
    /\ lines = Append(StatsPrefix, "Claws: Very Close | 1d12+2 phy")
    /\ result.attackInfo =
          <<[name |-> "Claws", range |-> "Very Close", dice |-> "1d12", bonus |-> 2,
             damageType |-> "physical"]>>
    /\ result.difficulty = 14
    /\ result.attack = 3
    /\ result.experience = "Tremor Sense +2"
    /\ result.motivesAndTactics = "Burrow"

\* the notifications shown so far that have the key k
Shown(k) == {n \in 1..Len(dialog.notifications) : dialog.notifications[n].key = k}

\* the handler is between the disabling of the button and the end of finally
InAttempt == dialog.pc \in {"try", "parsing", "creating", "catch", "finally"}

StartsFeature ==
    /\ InLoop
    /\ currentSection = "features"
    /\ ~IsTrigger(line)
    /\ \/ ParseFeatureHeader(line).ok
       \/ /\ currentFeature = Null
          /\ ~IsNewSection(line)
          /\ ParseFeatureHeaderFlexible(line).ok

\* the features started after the step are those started before it, in the same
\* order, with one more at the end exactly when the line starts a feature; only
\* the description of the last one may have grown
StartedGrows ==
    LET before == Started(result, currentFeature)
        after == Started(result', currentFeature')
    IN  /\ Len(after) = IF StartsFeature THEN Len(before) + 1 ELSE Len(before)
        /\ \A k \in 1..Len(before) :
              /\ HeaderOf(after[k]) = HeaderOf(before[k])
              /\ k < Len(before) => after[k] = before[k]
        /\ StartsFeature =>
              /\ currentFeature' # Null
              /\ currentFeature'[1].description = ""

\* the feature f has the name, type and value that the header l gives
FromHeader(f, l) ==
    IF ParseFeatureHeader(l).ok
    THEN HeaderOf(f) = HeaderOf(FeatureOf(l))
    ELSE /\ ParseFeatureHeaderFlexible(l).ok
         /\ HeaderOf(f) = HeaderOf(NewFeature(ParseFeatureHeaderFlexible(l))[1])

\* C29: every feature started, by a strict header in the features section or by
\* a flexible header while none is in progress, is in the returned features
\* exactly once and in the order started: no step of the loop loses, repeats or
\* reorders a started feature, a bare "Experience:" line among them, and the
\* record returned holds the features recorded followed by the one in progress.
C29_StartedFeaturesKept ==
    [][/\ InLoop => StartedGrows
       /\ (pc = "loop" /\ pc' = "done") =>
             /\ result'.features = Started(result, currentFeature)
             /\ \A k \in 1..Len(result'.features) :
                   \E j \in 1..Len(lines) :
                      /\ SectionBefore(j) = "features"
                      /\ FromHeader(result'.features[k], lines[j])]_vars

\* a record was returned for a statblock that left the features section twice
\* through "Experience:" with a feature in progress and came back both times:
\* its three features are there, in the order started
C29_Witness ==
    /\ pc = "done"
    /\ lines = ReturnToFeaturesLines
    /\ sectionLog[5] = "experience"
    /\ sectionLog[7] = "features"
    /\ sectionLog[10] = "experience"
    /\ sectionLog[11] = "features"
    /\ Len(result.features) = 3
    /\ result.features[1] = [name |-> "Bite", type |-> "action", value |-> "", description |-> "Sharp teeth."]
    /\ result.features[2] = [name |-> "Claws", type |-> "reaction", value |-> "", description |-> "Sharp claws."]
    /\ result.features[3] = [name |-> "Howl", type |-> "passive", value |-> "", description |-> ""]

\* the fields of the record that the header and experience sections fill
HeaderFields(res) ==
    [name |-> res.name, type |-> res.type, tier |-> res.tier,
     subtype |-> res.subtype, description |-> res.description,
     difficulty |-> res.difficulty, attack |-> res.attack,
     attackInfo |-> res.attackInfo, experience |-> res.experience,
     experiences |-> res.experiences, motivesAndTactics |-> res.motivesAndTactics]

\* the line about to be read is read in the features or hp_stress section, or
\* is the trigger line that enters one of them
ReadsBelowMarker ==
    /\ InLoop
    /\ \/ currentSection \in {"features", "hp_stress"}
       \/ IsFeaturesTrigger(line)
       \/ IsHpStressTrigger(line)

\* C30: a line read while the section is features or hp_stress, or the trigger
\* line that enters one of them, changes none of name, type, tier, subtype,
\* description, difficulty, attack, attackInfo, experience, experiences and
\* motivesAndTactics; from those two sections the section changes only to each
\* other or, through a bare "Experience:" line, to experience, so stat, name and
\* tier lines below the marker have no effect before an experience block.
C30_FrameBelowMarker ==
    [][ReadsBelowMarker =>
          /\ HeaderFields(result') = HeaderFields(result)
          /\ expectingMotivesContinuation' = expectingMotivesContinuation
          /\ currentSection' \in {"features", "hp_stress", "experience"}
          /\ currentSection' = "experience" =>
                IsExperienceSectionStart(line)]_vars

\* a record was returned for a statblock with a name line, a FEATURES or
\* HP & STRESS marker and a line of the legacy form below it: the name is still
\* the first line's, tier and subtype are as constructed
C30_Witness ==
    /\ pc = "done"
    /\ Len(lines) = 3
    /\ sectionLog[2] \in {"features", "hp_stress"}
    /\ sectionLog[3] = sectionLog[2]
    /\ MatchLegacyNameType(lines[3]).ok
    /\ MatchLegacyNameType(lines[3]).name # lines[1]
    /\ result.name = lines[1]
    /\ result.tier = 1
    /\ result.subtype = ""

=============================================================================
